---- MODULE Spec2Model ----
(***************************************************************************)
(* CSVStudio: key-based record reconciliation (upsert, delete, compare)    *)
(* and format-preserving serialization.                                    *)
(*                                                                         *)
(* A string is a sequence of one-character strings, so that trimming,      *)
(* lower-casing, quoting and parsing are computed character by character.  *)
(* A record (a row) is a function from header names to strings; a header   *)
(* the record lacks is outside its DOMAIN (JavaScript's undefined).        *)
(***************************************************************************)
EXTENDS Integers, Sequences, FiniteSets, Bags, TLC

\* ------------------------------------------------------------------------
\* Bounds of the model
\* ------------------------------------------------------------------------

\* Longest data section of an uploaded file, in lines.
MaxRows == 2

\* Longest raw key value drawn for the key normalizer, in characters.
MaxKeyLen == 2

\* Longest operation log of the clean panel.
MaxOps == 2

\* Longest rule list of a validation.
MaxRules == 2

\* The longest string the engine builds; a longer one is a RangeError
MaxStringLen == 3

VARIABLES
    \* DeletePanel
    delOriginal, delKey, delIdsText, delOptions, delIdsStats, delCleanIds,
    delPreviewData, delSummary,
    \* UpsertPanel
    upsStep, upsOriginal, upsMods, upsKey, upsHeaderMode, upsPreviewData, upsSummary,
    \* ComparePanel
    cmpStep, cmpBaseCSV, cmpCompareCSV, cmpKey, cmpOptions, cmpDiffResult, cmpSummary,
    \* CleanPanel
    clnCsv, clnSelectedCols, clnPreviewHeaders, clnPreviewRows, clnOperations,
    clnChangedKeys,
    \* validateDataset and findAndReplace applied to drawn values
    valRows, valRules, valKeyColumn, valResult, farArgs, farResult,
    \* the file loads in flight of the upsert and the compare panel
    upsLoading, cmpLoading,
    \* a call of findAndReplace, statement by statement: the position, the
    \* arguments, newRows so far, and result, searchIdx, foundIdx of the loop
    farPc, farInput, farNewRows, farLoopResult, farSearchIdx, farFoundIdx,
    \* buildLineWithPattern applied to drawn values
    fmtRow, fmtPattern, fmtOut,
    \* key normalization applied to drawn values
    normA, normB, normCfg, normOut,
    \* navigator.clipboard, the last alert and the last downloaded file
    clipboard, alertMsg, download

delVars == <<delOriginal, delKey, delIdsText, delOptions, delIdsStats, delCleanIds,
             delPreviewData, delSummary>>

upsVars == <<upsStep, upsOriginal, upsMods, upsKey, upsHeaderMode, upsPreviewData,
             upsSummary>>

cmpVars == <<cmpStep, cmpBaseCSV, cmpCompareCSV, cmpKey, cmpOptions, cmpDiffResult,
             cmpSummary>>

clnVars == <<clnCsv, clnSelectedCols, clnPreviewHeaders, clnPreviewRows, clnOperations,
             clnChangedKeys>>

valVars == <<valRows, valRules, valKeyColumn, valResult, farArgs, farResult>>

loadVars == <<upsLoading, cmpLoading>>

farVars == <<farPc, farInput, farNewRows, farLoopResult, farSearchIdx, farFoundIdx>>

fmtVars == <<fmtRow, fmtPattern, fmtOut>>

normVars == <<normA, normB, normCfg, normOut>>

outVars == <<clipboard, alertMsg, download>>

vars == <<delVars, upsVars, cmpVars, clnVars, valVars, loadVars, fmtVars, normVars, farVars, outVars>>

\* what the handlers of one panel leave alone
notDel == <<upsVars, cmpVars, clnVars, valVars, loadVars, fmtVars, normVars, farVars>>

notUps == <<delVars, cmpVars, clnVars, valVars, loadVars, fmtVars, normVars, farVars>>

notCmp == <<delVars, upsVars, clnVars, valVars, loadVars, fmtVars, normVars, farVars>>

notCln == <<delVars, upsVars, cmpVars, valVars, loadVars, fmtVars, normVars, farVars>>

notVal == <<delVars, upsVars, cmpVars, clnVars, loadVars, fmtVars, normVars, farVars>>

notFmt == <<delVars, upsVars, cmpVars, clnVars, valVars, loadVars, normVars, farVars>>

\* what a load of the upsert panel and of the compare panel leaves alone
notUpsLoad == <<delVars, cmpVars, clnVars, valVars, cmpLoading, fmtVars, normVars, farVars>>

notCmpLoad == <<delVars, upsVars, clnVars, valVars, upsLoading, fmtVars, normVars, farVars>>

notFar == <<delVars, upsVars, cmpVars, clnVars, valVars, loadVars, fmtVars, normVars>>

notNorm == <<delVars, upsVars, cmpVars, clnVars, valVars, loadVars, fmtVars, farVars>>

\* ------------------------------------------------------------------------
\* Characters and JavaScript string primitives
\* ------------------------------------------------------------------------

SP == " "
COMMA == ","
DQ == "\""
SQ == "'"
CR == "\r"
LF == "\n"

\* A nullable state hook holds Null or Some(value); Val reads the value.
Null == <<>>

Some(v) == <<v>>

Val(x) == x[1]

Range(s) == {s[i] : i \in DOMAIN s}

Min(a, b) == IF a < b THEN a ELSE b

\* String.prototype.toLowerCase on one character
LowerChar(c) == CASE c = "A" -> "a" [] c = "B" -> "b" [] OTHER -> c

toLowerCase(s) == [i \in DOMAIN s |-> LowerChar(s[i])]

IsSpace(c) == c \in {SP, CR, LF, "\t"}

RECURSIVE trimStart(_)
trimStart(s) == IF s # <<>> /\ IsSpace(Head(s)) THEN trimStart(Tail(s)) ELSE s

RECURSIVE trimEnd(_)
trimEnd(s) ==
    IF s # <<>> /\ IsSpace(s[Len(s)]) THEN trimEnd(SubSeq(s, 1, Len(s) - 1)) ELSE s

\* String.prototype.trim
trim(s) == trimEnd(trimStart(s))

\* String.prototype.includes for a one-character needle
includes(s, c) == c \in Range(s)

\* String.prototype.replace(/c/g, c + c): every c is doubled
RECURSIVE doubleChar(_, _)
doubleChar(s, c) ==
    IF s = <<>> THEN <<>>
    ELSE (IF Head(s) = c THEN <<c, c>> ELSE <<Head(s)>>) \o doubleChar(Tail(s), c)

\* Array.prototype.join
RECURSIVE join(_, _)
join(parts, sep) ==
    IF parts = <<>> THEN <<>>
    ELSE IF Len(parts) = 1 THEN parts[1]
    ELSE parts[1] \o sep \o join(Tail(parts), sep)

\* Array.prototype.indexOf, 0 when absent
RECURSIVE indexOf(_, _)
indexOf(s, x) ==
    IF s = <<>> THEN 0
    ELSE IF Head(s) = x THEN 1
    ELSE LET r == indexOf(Tail(s), x) IN IF r = 0 THEN 0 ELSE r + 1

\* The characters of a header name
Chars(h) ==
    CASE h = "id" -> <<"i", "d">>
      [] h = "v" -> <<"v">>
      [] h = "w" -> <<"w">>
      [] OTHER -> <<>>

\* String(row[h] ?? '')
Str(row, h) == IF h \in DOMAIN row THEN row[h] ELSE <<>>

\* ------------------------------------------------------------------------
\* lib/csv.ts: tokenizer
\* ------------------------------------------------------------------------

\* Papa.parse of one line (delimiter ',', quoteChar '"', escape by doubling).
\* st = [i: next position, cur: field so far, inq: inside a quoted field,
\*       fields: the finished fields]
RECURSIVE papaScan(_, _)
papaScan(line, st) ==
    IF st.i > Len(line) THEN Append(st.fields, st.cur)
    ELSE
      LET c == line[st.i] IN
      IF st.inq THEN
        IF c = DQ THEN
          IF st.i + 1 <= Len(line) /\ line[st.i + 1] = DQ
          THEN papaScan(line, [st EXCEPT !.i = st.i + 2, !.cur = Append(st.cur, DQ)])
          ELSE papaScan(line, [st EXCEPT !.i = st.i + 1, !.inq = FALSE])
        ELSE papaScan(line, [st EXCEPT !.i = st.i + 1, !.cur = Append(st.cur, c)])
      ELSE
        IF c = COMMA
        THEN papaScan(line, [st EXCEPT !.i = st.i + 1, !.cur = <<>>,
                                       !.fields = Append(st.fields, st.cur)])
        ELSE IF c = DQ /\ st.cur = <<>>
        THEN papaScan(line, [st EXCEPT !.i = st.i + 1, !.inq = TRUE])
        ELSE papaScan(line, [st EXCEPT !.i = st.i + 1, !.cur = Append(st.cur, c)])

papaFields(line) == papaScan(line, [i |-> 1, cur |-> <<>>, inq |-> FALSE, fields |-> <<>>])

\* header: true gives one record per data line, keyed by the header names;
\* a line with fewer fields than headers leaves the last headers absent.
papaRow(headers, line) ==
    LET fields == papaFields(line)
        n == Min(Len(headers), Len(fields))
    IN [h \in {headers[i] : i \in 1..n} |-> fields[indexOf(headers, h)]]

\* The header names a file can carry
HeaderNames == {"id", "v", "w"}

\* transformHeader: the trimmed text of a header field, as a header name
headerName(chars) ==
    IF \E h \in HeaderNames : Chars(h) = trim(chars)
    THEN CHOOSE h \in HeaderNames : Chars(h) = trim(chars)
    ELSE ""

\* parseCSVFile: content is the file's text as its sequence of lines (the
\* split on /\r?\n/); the raw lines drop the blank lines, Papa.parse with
\* skipEmptyLines: true drops the empty ones.
parseCSVFile(name, content) ==
    LET allLines == SelectSeq(content, LAMBDA l : trim(l) # <<>>)
        rawHeaderLine == IF allLines = <<>> THEN <<>> ELSE allLines[1]
        rawDataLines == IF allLines = <<>> THEN <<>> ELSE Tail(allLines)
        papaLines == SelectSeq(content, LAMBDA l : l # <<>>)
        hf == IF papaLines = <<>> THEN <<>> ELSE papaFields(papaLines[1])
        headers == [i \in DOMAIN hf |-> headerName(hf[i])]
        dataLines == IF papaLines = <<>> THEN <<>> ELSE Tail(papaLines)
    IN [rows |-> [i \in DOMAIN dataLines |-> papaRow(headers, dataLines[i])],
        headers |-> headers,
        name |-> name,
        rawLines |-> rawDataLines,
        rawHeaderLine |-> rawHeaderLine]

\* parseCSVLine: the fields of a line with their quotes kept.
\* st = [i, cur, inq, q: the open quote character, fields]
RECURSIVE parseScan(_, _)
parseScan(line, st) ==
    IF st.i > Len(line) THEN Append(st.fields, st.cur)
    ELSE
      LET c == line[st.i] IN
      IF ~st.inq THEN
        IF c = DQ \/ c = SQ
        THEN parseScan(line, [st EXCEPT !.i = st.i + 1, !.inq = TRUE, !.q = c,
                                        !.cur = Append(st.cur, c)])
        ELSE IF c = COMMA
        THEN parseScan(line, [st EXCEPT !.i = st.i + 1, !.cur = <<>>,
                                        !.fields = Append(st.fields, st.cur)])
        ELSE parseScan(line, [st EXCEPT !.i = st.i + 1, !.cur = Append(st.cur, c)])
      ELSE
        IF c = st.q THEN
          IF st.i + 1 <= Len(line) /\ line[st.i + 1] = st.q
          THEN parseScan(line, [st EXCEPT !.i = st.i + 2, !.cur = st.cur \o <<c, c>>])
          ELSE parseScan(line, [st EXCEPT !.i = st.i + 1, !.inq = FALSE,
                                          !.cur = Append(st.cur, c)])
        ELSE parseScan(line, [st EXCEPT !.i = st.i + 1, !.cur = Append(st.cur, c)])

parseCSVLine(line) ==
    parseScan(line, [i |-> 1, cur |-> <<>>, inq |-> FALSE, q |-> "", fields |-> <<>>])

\* detectColumnQuotePattern: per column, whether the field starts with a quote
detectColumnQuotePattern(rawLine) ==
    LET fields == parseCSVLine(rawLine)
    IN [i \in DOMAIN fields |->
          LET trimmed == trim(fields[i])
          IN trimmed # <<>> /\ (trimmed[1] = DQ \/ trimmed[1] = SQ)]

\* ------------------------------------------------------------------------
\* JavaScript Map: insertion-ordered sequence of [k, v] entries
\* ------------------------------------------------------------------------

mapHas(m, k) == \E i \in DOMAIN m : m[i].k = k

mapGet(m, k) == m[CHOOSE i \in DOMAIN m : m[i].k = k].v

\* Map.prototype.set: a present key keeps its position and takes the new value
mapSet(m, k, v) ==
    IF mapHas(m, k)
    THEN [i \in DOMAIN m |-> IF m[i].k = k THEN [k |-> k, v |-> v] ELSE m[i]]
    ELSE Append(m, [k |-> k, v |-> v])

mapDelete(m, k) == SelectSeq(m, LAMBDA e : e.k # k)

mapValues(m) == [i \in DOMAIN m |-> m[i].v]

mapKeys(m) == [i \in DOMAIN m |-> m[i].k]

\* ------------------------------------------------------------------------
\* lib/csv.ts: serializer, per-column generation
\* ------------------------------------------------------------------------

CRLF == <<CR, LF>>

\* formatValueForColumn on String(value ?? '')
formatValueForColumn(str, shouldQuote) ==
    IF str = <<>> THEN <<>>
    ELSE
      LET needsQuoting == includes(str, COMMA) \/ includes(str, LF)
                            \/ includes(str, CR) \/ includes(str, DQ)
      IN IF needsQuoting \/ shouldQuote
         THEN <<DQ>> \o doubleChar(str, DQ) \o <<DQ>>
         ELSE str

\* columnQuotePattern[i] ?? false
patternAt(pattern, i) == IF i \in DOMAIN pattern THEN pattern[i] ELSE FALSE

buildLineWithPattern(row, headers, columnQuotePattern) ==
    join([i \in DOMAIN headers |->
            formatValueForColumn(Str(row, headers[i]), patternAt(columnQuotePattern, i))],
         <<COMMA>>)

\* originalCSV.rawLines[i] is a non-empty string
hasRawLine(csv, i) == i \in DOMAIN csv.rawLines /\ csv.rawLines[i] # <<>>

\* the originalRawByKey lookup built by the forEach over originalCSV.rows
RECURSIVE rawByKeyFrom(_, _, _, _)
rawByKeyFrom(csv, keyColumn, i, m) ==
    IF i > Len(csv.rows) THEN m
    ELSE
      LET k == trim(Str(csv.rows[i], keyColumn)) IN
      rawByKeyFrom(csv, keyColumn, i + 1,
                   IF k # <<>> /\ hasRawLine(csv, i)
                   THEN mapSet(m, k, csv.rawLines[i]) ELSE m)

originalRawByKey(csv, keyColumn) == rawByKeyFrom(csv, keyColumn, 1, <<>>)

headersChanged(headers, csv) ==
    Len(headers) # Len(csv.headers)
      \/ ~(\A i \in DOMAIN headers : headers[i] = csv.headers[i])

\* the quote pattern of the first data line, else of the header line
dataQuotePattern(csv) ==
    IF hasRawLine(csv, 1)
    THEN detectColumnQuotePattern(csv.rawLines[1])
    ELSE detectColumnQuotePattern(csv.rawHeaderLine)

\* the test that replays the stored raw line of a row
replays(headers, row, csv, keyColumn, changedKeys) ==
    LET k == trim(Str(row, keyColumn))
    IN /\ k \notin changedKeys
       /\ ~headersChanged(headers, csv)
       /\ mapHas(originalRawByKey(csv, keyColumn), k)

\* one data line of formatPreservingExport: replayed or rebuilt
exportDataLine(headers, row, csv, keyColumn, changedKeys) ==
    IF replays(headers, row, csv, keyColumn, changedKeys)
    THEN mapGet(originalRawByKey(csv, keyColumn), trim(Str(row, keyColumn)))
    ELSE buildLineWithPattern(row, headers, dataQuotePattern(csv))

exportHeaderLine(headers, csv) ==
    LET headerQuotePattern == detectColumnQuotePattern(csv.rawHeaderLine)
    IN join([i \in DOMAIN headers |->
               formatValueForColumn(Chars(headers[i]), patternAt(headerQuotePattern, i))],
            <<COMMA>>)

formatPreservingExport(headers, rows, csv, keyColumn, changedKeys) ==
    join(<<exportHeaderLine(headers, csv)>>
           \o [i \in DOMAIN rows |->
                 exportDataLine(headers, rows[i], csv, keyColumn, changedKeys)],
         CRLF)

\* ------------------------------------------------------------------------
\* lib/csv.ts: serializer, whole-line generation
\* ------------------------------------------------------------------------

\* trimmed.includes(',' + q)
RECURSIVE includesAfterComma(_, _)
includesAfterComma(s, q) ==
    IF Len(s) < 2 THEN FALSE
    ELSE (s[1] = COMMA /\ s[2] = q) \/ includesAfterComma(Tail(s), q)

detectQuotePattern(rawLine) ==
    LET trimmed == trim(rawLine) IN
    IF (trimmed # <<>> /\ trimmed[1] = DQ) \/ includesAfterComma(trimmed, DQ)
    THEN [quoted |-> TRUE, quoteChar |-> DQ]
    ELSE IF (trimmed # <<>> /\ trimmed[1] = SQ) \/ includesAfterComma(trimmed, SQ)
    THEN [quoted |-> TRUE, quoteChar |-> SQ]
    ELSE [quoted |-> FALSE, quoteChar |-> DQ]

formatValue(str, quoted, quoteChar) ==
    LET needsQuoting == includes(str, COMMA) \/ includes(str, LF)
                          \/ includes(str, CR) \/ includes(str, quoteChar)
    IN IF needsQuoting \/ quoted
       THEN <<quoteChar>> \o doubleChar(str, quoteChar) \o <<quoteChar>>
       ELSE str

buildLine(row, headers, quoted, quoteChar) ==
    join([i \in DOMAIN headers |-> formatValue(Str(row, headers[i]), quoted, quoteChar)],
         <<COMMA>>)

dataPattern(csv) ==
    IF hasRawLine(csv, 1)
    THEN detectQuotePattern(csv.rawLines[1])
    ELSE detectQuotePattern(csv.rawHeaderLine)

\* the test that replays the stored raw line of a row, whole-line generation
wholeLineReplays(row, csv, keyColumn, changedKeys) ==
    LET k == trim(Str(row, keyColumn))
    IN k \notin changedKeys /\ mapHas(originalRawByKey(csv, keyColumn), k)

wholeLineDataLine(headers, row, csv, keyColumn, changedKeys) ==
    IF wholeLineReplays(row, csv, keyColumn, changedKeys)
    THEN mapGet(originalRawByKey(csv, keyColumn), trim(Str(row, keyColumn)))
    ELSE buildLine(row, headers, dataPattern(csv).quoted, dataPattern(csv).quoteChar)

wholeLineHeaderLine(headers, csv) ==
    LET headerPattern == detectQuotePattern(csv.rawHeaderLine)
    IN join([i \in DOMAIN headers |->
               formatValue(Chars(headers[i]), headerPattern.quoted, headerPattern.quoteChar)],
            <<COMMA>>)

formatPreservingExportWholeLine(headers, rows, csv, keyColumn, changedKeys) ==
    join(<<wholeLineHeaderLine(headers, csv)>>
           \o [i \in DOMAIN rows |->
                 wholeLineDataLine(headers, rows[i], csv, keyColumn, changedKeys)],
         CRLF)

\* ------------------------------------------------------------------------
\* lib/csv.ts: exportToCSV (Papa.unparse with quotes: true)
\* ------------------------------------------------------------------------

\* a field of Papa.unparse under quotes: true; undefined is written as ''
unparseField(row, h) ==
    IF h \notin DOMAIN row THEN <<>>
    ELSE <<DQ>> \o doubleChar(row[h], DQ) \o <<DQ>>

exportToCSV(headers, rows) ==
    join(<<join([i \in DOMAIN headers |->
                   <<DQ>> \o doubleChar(Chars(headers[i]), DQ) \o <<DQ>>], <<COMMA>>)>>
           \o [r \in DOMAIN rows |->
                 join([i \in DOMAIN headers |-> unparseField(rows[r], headers[i])],
                      <<COMMA>>)],
         CRLF)

\* The lines of an exported text (split on CRLF)
RECURSIVE splitLines(_, _)
splitLines(text, cur) ==
    IF text = <<>> THEN <<cur>>
    ELSE IF Len(text) >= 2 /\ text[1] = CR /\ text[2] = LF
    THEN <<cur>> \o splitLines(SubSeq(text, 3, Len(text)), <<>>)
    ELSE splitLines(Tail(text), Append(cur, Head(text)))

Lines(text) == splitLines(text, <<>>)

\* ------------------------------------------------------------------------
\* Input files
\* ------------------------------------------------------------------------

SeqsUpTo(S, n) == UNION {[1..k -> S] : k \in 0..n}

\* the texts of the files with header line hdr and up to MaxRows data lines
FileTexts(hdr, pool) == {<<hdr>> \o body : body \in SeqsUpTo(pool, MaxRows)}

HdrIdV == <<"i", "d", COMMA, "v">>

\* ------------------------------------------------------------------------
\* DeletePanel (delete rows by identifier)
\* ------------------------------------------------------------------------

\* data lines of the delete workflow's base files:  1,x   a,"x,y"   " A",x
DelLinePool ==
    { <<"1", COMMA, "x">>,
      <<"a", COMMA, DQ, "x", COMMA, "y", DQ>>,
      <<SP, "A", COMMA, "x">> }

DelFileTexts == FileTexts(HdrIdV, DelLinePool)

\* pasted identifier texts:  "1, 3"   "a"   "A"   "a,A"   "A;a;a"
IdsTexts ==
    { <<"1", COMMA, SP, "3">>,
      <<"a">>,
      <<"A">>,
      <<"a", COMMA, "A">>,
      <<"A", ";", "a", ";", "a">> }

DelInit ==
    /\ delOriginal = Null
    /\ delKey = ""
    /\ delIdsText = <<>>
    /\ delOptions = [trim |-> TRUE, dedup |-> TRUE, ci |-> FALSE]
    /\ delIdsStats = Null
    /\ delCleanIds = [list |-> <<>>, set |-> {}]
    /\ delPreviewData = Null
    /\ delSummary = Null

OutInit ==
    /\ clipboard = Null
    /\ alertMsg = Null
    /\ download = Null

\* DeletePanel.handleOriginal
delHandleOriginal(text) ==
    /\ LET p == parseCSVFile("original", text) IN
       /\ delOriginal' = Some(p)
       /\ delKey' = IF Len(p.headers) > 0 THEN p.headers[1] ELSE delKey
    /\ UNCHANGED <<delIdsText, delOptions, delIdsStats, delCleanIds,
                   delPreviewData, delSummary, notDel, outVars>>

\* the key <select>, enabled once a file is loaded
delSetKey(h) ==
    /\ delOriginal # Null
    /\ h \in Range(Val(delOriginal).headers)
    /\ delKey' = h
    /\ UNCHANGED <<delOriginal, delIdsText, delOptions, delIdsStats, delCleanIds,
                   delPreviewData, delSummary, notDel, outVars>>

\* the identifier <textarea>
delSetIdsText(text) ==
    /\ delIdsText = <<>>
    /\ text # <<>>
    /\ delIdsText' = text
    /\ UNCHANGED <<delOriginal, delKey, delOptions, delIdsStats, delCleanIds,
                   delPreviewData, delSummary, notDel, outVars>>

\* the Trim / Dedupe / Case-insensitive checkboxes
delSetOptions(opt) ==
    /\ opt \in {"trim", "dedup", "ci"}
    /\ delOptions' = [delOptions EXCEPT ![opt] = ~delOptions[opt]]
    /\ UNCHANGED <<delOriginal, delKey, delIdsText, delIdsStats, delCleanIds,
                   delPreviewData, delSummary, notDel, outVars>>

IsIdSeparator(c) == c \in {LF, CR, "\t", COMMA, ";", SP}

\* raw.split(/[\n\r\t,; ]+/)
RECURSIVE splitIds(_, _, _)
splitIds(text, cur, afterSep) ==
    IF text = <<>> THEN <<cur>>
    ELSE IF IsIdSeparator(Head(text))
    THEN IF afterSep THEN splitIds(Tail(text), cur, TRUE)
         ELSE <<cur>> \o splitIds(Tail(text), <<>>, TRUE)
    ELSE splitIds(Tail(text), Append(cur, Head(text)), FALSE)

\* raw.split(...).map(s => s.trim()).filter(Boolean)
idParts(text) ==
    LET split == splitIds(text, <<>>, FALSE)
        trimmed == [i \in DOMAIN split |-> trim(split[i])]
    IN SelectSeq(trimmed, LAMBDA x : x # <<>>)

\* the for loop of handleClean over parts[i..]
RECURSIVE cleanLoop(_, _, _, _)
cleanLoop(parts, i, acc, opts) ==
    IF i > Len(parts) THEN acc
    ELSE
      LET k == IF opts.trim THEN trim(parts[i]) ELSE parts[i]
          probe == IF opts.ci THEN toLowerCase(k) ELSE k
      IN IF opts.dedup
         THEN IF probe \notin acc.set
              THEN cleanLoop(parts, i + 1,
                             [list |-> Append(acc.list, k), set |-> acc.set \cup {probe}], opts)
              ELSE cleanLoop(parts, i + 1, acc, opts)
         ELSE cleanLoop(parts, i + 1,
                        [list |-> Append(acc.list, k), set |-> acc.set \cup {probe}], opts)

\* DeletePanel.handleClean
delHandleClean ==
    /\ LET parts == idParts(delIdsText)
           res == cleanLoop(parts, 1, [list |-> <<>>, set |-> {}], delOptions)
       IN /\ delCleanIds' = res
          /\ delIdsStats' = Some([detected |-> Len(parts), unique |-> Len(res.list)])
    /\ UNCHANGED <<delOriginal, delKey, delIdsText, delOptions,
                   delPreviewData, delSummary, notDel, outVars>>

\* the probe of a base row in handlePreview
previewProbe(r, key, opts) ==
    LET raw == Str(r, key)
        val == IF opts.trim THEN trim(raw) ELSE raw
    IN IF opts.ci THEN toLowerCase(val) ELSE val

previewPresence(orig, key, opts) == {previewProbe(orig.rows[i], key, opts) : i \in DOMAIN orig.rows}

previewToDelete(orig, key, opts, ids) ==
    SelectSeq(orig.rows, LAMBDA r : previewProbe(r, key, opts) \in ids.set)

previewNotFound(orig, key, opts, ids) ==
    SelectSeq(ids.list,
              LAMBDA id : (IF opts.ci THEN toLowerCase(id) ELSE id)
                             \notin previewPresence(orig, key, opts))

\* DeletePanel.handlePreview
delHandlePreview ==
    /\ delOriginal # Null
    /\ delKey # ""
    /\ Len(delCleanIds.list) # 0
    /\ LET original == Val(delOriginal)
           toDelete == previewToDelete(original, delKey, delOptions, delCleanIds)
           notFound == previewNotFound(original, delKey, delOptions, delCleanIds)
       IN /\ delPreviewData' = Some([toDelete |-> toDelete, notFound |-> notFound])
          /\ delSummary' = Some([remove |-> Len(toDelete), total |-> Len(original.rows),
                                 notFound |-> Len(notFound)])
    /\ UNCHANGED <<delOriginal, delKey, delIdsText, delOptions, delIdsStats,
                   delCleanIds, notDel, outVars>>

\* handleRun's probe with the trim option ignored
runProbeNoTrim(r, key, opts) ==
    LET raw == Str(r, key)
    IN IF opts.ci THEN toLowerCase(raw) ELSE raw

\* the probe of a base row in handleRun
runProbe(r, key, opts) ==
    LET raw == Str(r, key)
        val == IF opts.trim THEN trim(raw) ELSE raw
    IN IF opts.ci THEN toLowerCase(val) ELSE val

runFiltered(orig, key, opts, ids) ==
    SelectSeq(orig.rows, LAMBDA r : runProbe(r, key, opts) \notin ids.set)

\* DeletePanel.handleRun
delHandleRun ==
    /\ delOriginal # Null
    /\ delKey # ""
    /\ LET original == Val(delOriginal)
           filtered == runFiltered(original, delKey, delOptions, delCleanIds)
       IN /\ clipboard' = Some(exportToCSV(original.headers, filtered))
          /\ alertMsg' = Some([removed |-> Len(original.rows) - Len(filtered),
                               remaining |-> Len(filtered)])
    /\ UNCHANGED <<delVars, notDel, download>>

\* DeletePanel.handleReset
delHandleReset ==
    /\ delOriginal' = Null
    /\ delKey' = ""
    /\ delIdsText' = <<>>
    /\ delIdsStats' = Null
    /\ delCleanIds' = [list |-> <<>>, set |-> {}]
    /\ delPreviewData' = Null
    /\ delSummary' = Null
    /\ UNCHANGED <<delOptions, notDel, outVars>>

\* one file is loaded into the empty panel and worked on
DelNext ==
    \/ \E text \in DelFileTexts : delOriginal = Null /\ delHandleOriginal(text)
    \/ \E h \in HeaderNames : delSetKey(h)
    \/ \E text \in IdsTexts : delSetIdsText(text)
    \/ \E opt \in {"trim", "dedup", "ci"} : delSetOptions(opt)
    \/ delHandleClean
    \/ delHandlePreview
    \/ delHandleRun

\* ------------------------------------------------------------------------
\* UpsertPanel (merge a modifications file into a base file)
\* ------------------------------------------------------------------------

HdrIdW == <<"i", "d", COMMA, "w">>

\* data lines of the base files:  1,a   2,"x,y"   " 1",b
UpsBaseLinePool ==
    { <<"1", COMMA, "a">>,
      <<"2", COMMA, DQ, "x", COMMA, "y", DQ>>,
      <<SP, "1", COMMA, "b">> }

\* data lines of the modification files:  1,b   3,c   3,d   ,e
UpsModsLinePool ==
    { <<"1", COMMA, "b">>,
      <<"3", COMMA, "c">>,
      <<"3", COMMA, "d">>,
      <<COMMA, "e">> }

UpsBaseTexts == FileTexts(HdrIdV, UpsBaseLinePool)

\* a longer modification file, whose first key comes again after another
\* key:  3,c   1,b   3,d
UpsModsLongTexts ==
    { <<HdrIdV, <<"3", COMMA, "c">>, <<"1", COMMA, "b">>, <<"3", COMMA, "d">>>> }

UpsModsTexts ==
    FileTexts(HdrIdV, UpsModsLinePool) \cup FileTexts(HdrIdW, UpsModsLinePool)
      \cup UpsModsLongTexts

UpsInit ==
    /\ upsStep = 1
    /\ upsOriginal = Null
    /\ upsMods = Null
    /\ upsKey = ""
    /\ upsHeaderMode = "original"
    /\ upsPreviewData = Null
    /\ upsSummary = Null

\* commonHeaders: the modification headers the base file has too
commonHeaders(orig, mods) ==
    IF orig = Null \/ mods = Null THEN <<>>
    ELSE SelectSeq(Val(mods).headers, LAMBDA h : h \in Range(Val(orig).headers))

\* the effect that selects the first common header while no key is chosen
keyEffect(orig, mods, key) ==
    IF Len(commonHeaders(orig, mods)) > 0 /\ key = ""
    THEN commonHeaders(orig, mods)[1]
    ELSE key

\* UpsertPanel.handleOriginal, with the key effect that follows the render
upsHandleOriginal(text) ==
    /\ LET p == Some(parseCSVFile("original", text)) IN
       /\ upsOriginal' = p
       /\ upsStep' = IF upsMods # Null THEN 2 ELSE upsStep
       /\ upsKey' = keyEffect(p, upsMods, upsKey)
    /\ UNCHANGED <<upsMods, upsHeaderMode, upsPreviewData, upsSummary, notUps, outVars>>

\* UpsertPanel.handleMods, with the key effect that follows the render
upsHandleMods(text) ==
    /\ LET p == Some(parseCSVFile("mods", text)) IN
       /\ upsMods' = p
       /\ upsStep' = IF upsOriginal # Null THEN 2 ELSE upsStep
       /\ upsKey' = keyEffect(upsOriginal, p, upsKey)
    /\ UNCHANGED <<upsOriginal, upsHeaderMode, upsPreviewData, upsSummary, notUps, outVars>>

\* the key <select>: offers the common headers, disabled once a preview is shown
upsSetKey(h) ==
    /\ ~(upsStep > 2 /\ upsPreviewData # Null)
    /\ h \in Range(commonHeaders(upsOriginal, upsMods))
    /\ upsKey' = h
    /\ UNCHANGED <<upsStep, upsOriginal, upsMods, upsHeaderMode, upsPreviewData,
                   upsSummary, notUps, outVars>>

\* the output-columns <select>, disabled once a preview is shown
upsSetHeaderMode(mode) ==
    /\ ~(upsStep > 2 /\ upsPreviewData # Null)
    /\ mode \in {"original", "union"}
    /\ upsHeaderMode' = mode
    /\ UNCHANGED <<upsStep, upsOriginal, upsMods, upsKey, upsPreviewData,
                   upsSummary, notUps, outVars>>

\* unionHeaders without the seen set: every header of more is appended
unionHeadersAll(out, more) == out \o more

\* headersOut: the base headers, in union mode followed by the new headers of mods
RECURSIVE unionHeaders(_, _)
unionHeaders(out, more) ==
    IF more = <<>> THEN out
    ELSE IF Head(more) \in Range(out) THEN unionHeaders(out, Tail(more))
    ELSE unionHeaders(Append(out, Head(more)), Tail(more))

headersOut(orig, mods, mode) ==
    IF mode = "union" THEN unionHeaders(orig.headers, mods.headers) ELSE orig.headers

\* modMapFrom entering a key once: the first record of a key stays
RECURSIVE modMapFromFirst(_, _, _, _)
modMapFromFirst(rows, key, i, m) ==
    IF i > Len(rows) THEN m
    ELSE LET id == trim(Str(rows[i], key))
         IN modMapFromFirst(rows, key, i + 1,
                            IF id # <<>> /\ ~mapHas(m, id) THEN mapSet(m, id, rows[i]) ELSE m)

\* modMap: the modification records by trimmed key, rows[i..] entered into m
RECURSIVE modMapFrom(_, _, _, _)
modMapFrom(rows, key, i, m) ==
    IF i > Len(rows) THEN m
    ELSE LET id == trim(Str(rows[i], key))
         IN modMapFrom(rows, key, i + 1, IF id # <<>> THEN mapSet(m, id, rows[i]) ELSE m)

modMap(mods, key) == modMapFrom(mods.rows, key, 1, <<>>)

\* { ...a, ...b } and Object.assign(a, b)
assign(a, b) ==
    [h \in DOMAIN a \cup DOMAIN b |-> IF h \in DOMAIN b THEN b[h] ELSE a[h]]

\* changed with changed[h] = aft: the differing columns with their new value
previewChangedAfter(or, after, hdrs) ==
    [h \in {x \in Range(hdrs) : Str(or, x) # Str(after, x)} |-> Str(after, h)]

\* handlePreview's changed: the differing output columns with their base value
previewChanged(or, after, hdrs) ==
    [h \in {x \in Range(hdrs) : Str(or, x) # Str(after, x)} |-> Str(or, h)]

\* the forEach of handlePreview over original.rows[i..]
\* acc = [modMap, updates, changedById, updatedCount]
RECURSIVE previewLoop(_, _, _, _, _)
previewLoop(rows, key, hdrs, i, acc) ==
    IF i > Len(rows) THEN acc
    ELSE
      LET or == rows[i]
          id == trim(Str(or, key))
      IN IF id # <<>> /\ mapHas(acc.modMap, id)
         THEN LET mr == mapGet(acc.modMap, id)
                  after == assign(or, mr)
                  changed == previewChanged(or, after, hdrs)
                  hit == DOMAIN changed # {}
              IN previewLoop(rows, key, hdrs, i + 1,
                   [modMap |-> mapDelete(acc.modMap, id),
                    updates |-> IF hit THEN Append(acc.updates, after) ELSE acc.updates,
                    changedById |-> IF hit THEN mapSet(acc.changedById, id, changed)
                                    ELSE acc.changedById,
                    updatedCount |-> IF hit THEN acc.updatedCount + 1
                                     ELSE acc.updatedCount])
         ELSE previewLoop(rows, key, hdrs, i + 1, acc)

upsertPreview(orig, mods, key, mode) ==
    LET hdrs == headersOut(orig, mods, mode)
        res == previewLoop(orig.rows, key, hdrs, 1,
                           [modMap |-> modMap(mods, key), updates |-> <<>>,
                            changedById |-> <<>>, updatedCount |-> 0])
    IN [updates |-> res.updates,
        inserts |-> mapValues(res.modMap),
        changedById |-> res.changedById,
        headersOut |-> hdrs,
        updatedCount |-> res.updatedCount]

\* UpsertPanel.handlePreview
upsHandlePreview ==
    /\ upsOriginal # Null /\ upsMods # Null /\ upsKey # ""
    /\ LET res == upsertPreview(Val(upsOriginal), Val(upsMods), upsKey, upsHeaderMode) IN
       /\ upsPreviewData' = Some([updates |-> res.updates, inserts |-> res.inserts,
                                  changedById |-> res.changedById,
                                  headersOut |-> res.headersOut])
       /\ upsSummary' = Some([updated |-> res.updatedCount, inserted |-> Len(res.inserts),
                              columns |-> Len(res.headersOut)])
    /\ upsStep' = 3
    /\ UNCHANGED <<upsOriginal, upsMods, upsKey, upsHeaderMode, notUps, outVars>>

\* handleRun's hasChanges for base row `row` and modification record mr
runHasChanges(row, mr, hdrs) ==
    \E n \in DOMAIN hdrs :
      LET h == hdrs[n]
          before == Str(row, h)
          after == IF h \in DOMAIN mr THEN mr[h] ELSE Str(row, h)
      IN before # after

\* Object.assign(row, mr) with row = r, the record of the loaded file itself
mergeInPlace(r, mr) == [source |-> assign(r, mr), row |-> assign(r, mr)]

\* const row = { ...r } and Object.assign(row, mr): the clone takes the
\* modification's values, the record r of the loaded file keeps its own
mergeIntoClone(r, mr) == [source |-> r, row |-> assign(r, mr)]

\* runLoop without modMap.delete(id): a consumed modification stays pending
RECURSIVE runLoopNoDelete(_, _, _, _, _)
runLoopNoDelete(rows, key, hdrs, i, acc) ==
    IF i > Len(rows) THEN acc
    ELSE
      LET row == rows[i]
          id == trim(Str(row, key))
      IN IF id # <<>> /\ mapHas(acc.modMap, id)
         THEN LET mr == mapGet(acc.modMap, id)
                  hit == runHasChanges(row, mr, hdrs)
                  w == IF hit THEN mergeIntoClone(row, mr)
                       ELSE [source |-> row, row |-> row]
              IN runLoopNoDelete(rows, key, hdrs, i + 1,
                   [modMap |-> acc.modMap,
                    outRows |-> Append(acc.outRows, w.row),
                    baseRows |-> Append(acc.baseRows, w.source),
                    updated |-> IF hit THEN acc.updated + 1 ELSE acc.updated])
         ELSE runLoopNoDelete(rows, key, hdrs, i + 1,
                              [acc EXCEPT !.outRows = Append(acc.outRows, row),
                                          !.baseRows = Append(acc.baseRows, row)])

\* the map of handleRun over original.rows[i..]
\* acc = [modMap, outRows, baseRows: the records of original.rows as the
\* loop leaves them, updated]
RECURSIVE runLoop(_, _, _, _, _)
runLoop(rows, key, hdrs, i, acc) ==
    IF i > Len(rows) THEN acc
    ELSE
      LET row == rows[i]
          id == trim(Str(row, key))
      IN IF id # <<>> /\ mapHas(acc.modMap, id)
         THEN LET mr == mapGet(acc.modMap, id)
                  hit == runHasChanges(row, mr, hdrs)
                  w == IF hit THEN mergeIntoClone(row, mr)
                       ELSE [source |-> row, row |-> row]
              IN runLoop(rows, key, hdrs, i + 1,
                   [modMap |-> mapDelete(acc.modMap, id),
                    outRows |-> Append(acc.outRows, w.row),
                    baseRows |-> Append(acc.baseRows, w.source),
                    updated |-> IF hit THEN acc.updated + 1 ELSE acc.updated])
         ELSE runLoop(rows, key, hdrs, i + 1,
                      [acc EXCEPT !.outRows = Append(acc.outRows, row),
                                  !.baseRows = Append(acc.baseRows, row)])

upsertRun(orig, mods, key, mode) ==
    LET hdrs == headersOut(orig, mods, mode)
        res == runLoop(orig.rows, key, hdrs, 1,
                       [modMap |-> modMap(mods, key), outRows |-> <<>>,
                        baseRows |-> <<>>, updated |-> 0])
    IN [outRows |-> res.outRows \o mapValues(res.modMap),
        baseRows |-> res.baseRows,
        headersOut |-> hdrs,
        updated |-> res.updated,
        inserted |-> Len(res.modMap)]

\* the text handleRun builds: every line is its values joined by commas
plainCSV(hdrs, rows) ==
    join(<<join([i \in DOMAIN hdrs |-> Chars(hdrs[i])], <<COMMA>>)>>
           \o [r \in DOMAIN rows |->
                 join([i \in DOMAIN hdrs |-> Str(rows[r], hdrs[i])], <<COMMA>>)],
         CRLF)

\* UpsertPanel.handleRun
upsHandleRun ==
    /\ upsOriginal # Null /\ upsMods # Null /\ upsKey # ""
    /\ LET res == upsertRun(Val(upsOriginal), Val(upsMods), upsKey, upsHeaderMode) IN
       /\ clipboard' = Some(plainCSV(res.headersOut, res.outRows))
       /\ alertMsg' = Some([updated |-> res.updated, inserted |-> res.inserted])
       /\ upsOriginal' = Some([Val(upsOriginal) EXCEPT !.rows = res.baseRows])
    /\ UNCHANGED <<upsStep, upsMods, upsKey, upsHeaderMode, upsPreviewData, upsSummary,
                   notUps, download>>

\* the forEach of the download generation's handleRun over the clones of
\* original.rows[i..]: acc = [modMap, outRows, updated]
RECURSIVE runDownloadLoop(_, _, _, _)
runDownloadLoop(rows, key, i, acc) ==
    IF i > Len(rows) THEN acc
    ELSE
      LET r == rows[i]
          id == trim(Str(r, key))
      IN IF id # <<>> /\ mapHas(acc.modMap, id)
         THEN runDownloadLoop(rows, key, i + 1,
                [modMap |-> mapDelete(acc.modMap, id),
                 outRows |-> Append(acc.outRows, assign(r, mapGet(acc.modMap, id))),
                 updated |-> acc.updated + 1])
         ELSE runDownloadLoop(rows, key, i + 1,
                [acc EXCEPT !.outRows = Append(acc.outRows, r)])

upsertRunDownload(orig, mods, key, mode) ==
    LET res == runDownloadLoop(orig.rows, key, 1,
                               [modMap |-> modMap(mods, key), outRows |-> <<>>, updated |-> 0])
    IN [outRows |-> res.outRows \o mapValues(res.modMap),
        headersOut |-> headersOut(orig, mods, mode),
        updated |-> res.updated,
        inserted |-> Len(res.modMap)]

\* a field of Papa.unparse: quoted when it holds the delimiter, a quote or a
\* line break, or starts or ends with a space
papaUnparseField(str) ==
    IF \/ includes(str, COMMA) \/ includes(str, DQ) \/ includes(str, CR) \/ includes(str, LF)
       \/ (str # <<>> /\ (str[1] = SP \/ str[Len(str)] = SP))
    THEN <<DQ>> \o doubleChar(str, DQ) \o <<DQ>>
    ELSE str

\* Papa.unparse({ fields, data }) with data the rows' values in the fields
papaUnparse(fields, rows) ==
    join(<<join([i \in DOMAIN fields |-> papaUnparseField(Chars(fields[i]))], <<COMMA>>)>>
           \o [r \in DOMAIN rows |->
                 join([i \in DOMAIN fields |-> papaUnparseField(Str(rows[r], fields[i]))],
                      <<COMMA>>)],
         CRLF)

\* handleRun of the generation that downloads updated.csv
upsHandleRunDownload ==
    /\ upsOriginal # Null /\ upsMods # Null /\ upsKey # ""
    /\ LET res == upsertRunDownload(Val(upsOriginal), Val(upsMods), upsKey, upsHeaderMode) IN
       /\ download' = Some(papaUnparse(res.headersOut, res.outRows))
       /\ alertMsg' = Some([updated |-> res.updated, inserted |-> res.inserted])
    /\ UNCHANGED <<upsVars, notUps, clipboard>>

\* UpsertPanel.handleReset
upsHandleReset ==
    /\ upsOriginal' = Null
    /\ upsMods' = Null
    /\ upsKey' = ""
    /\ upsPreviewData' = Null
    /\ upsStep' = 1
    /\ upsSummary' = Null
    /\ UNCHANGED <<upsHeaderMode, notUps, outVars>>

\* each file is loaded once, into its empty slot
UpsNext ==
    \/ \E text \in UpsBaseTexts : upsOriginal = Null /\ upsHandleOriginal(text)
    \/ \E text \in UpsModsTexts : upsMods = Null /\ upsHandleMods(text)
    \/ \E h \in HeaderNames : upsSetKey(h)
    \/ \E mode \in {"original", "union"} : upsSetHeaderMode(mode)
    \/ upsHandlePreview
    \/ upsHandleRun

\* no file is being loaded
LoadInit ==
    /\ upsLoading = {}
    /\ cmpLoading = {}

\* DropZone.validateAndProcessFile on the drop zone of a slot: onFile, the
\* handler of the render of this moment, is called after the delay and then
\* awaits the parse; the handler holds this render's value of the other slot
upsDrop(slot, text) ==
    /\ \A l \in upsLoading : l.slot # slot
    /\ upsLoading' = upsLoading \cup
         {[slot |-> slot, text |-> text,
           other |-> IF slot = "original" THEN upsMods # Null ELSE upsOriginal # Null]}
    /\ UNCHANGED <<upsVars, notUpsLoad, outVars>>

\* handleOriginal / handleMods after the await: the slot is set, and the
\* step is set to 2 if the handler's value of the other slot is a file
upsLoaded(l) ==
    /\ l \in upsLoading
    /\ upsLoading' = upsLoading \ {l}
    /\ LET p == Some(parseCSVFile(l.slot, l.text))
           orig == IF l.slot = "original" THEN p ELSE upsOriginal
           mods == IF l.slot = "mods" THEN p ELSE upsMods
       IN /\ upsOriginal' = orig
          /\ upsMods' = mods
          /\ upsKey' = keyEffect(orig, mods, upsKey)
    /\ upsStep' = IF l.other THEN 2 ELSE upsStep
    /\ UNCHANGED <<upsHeaderMode, upsPreviewData, upsSummary, notUpsLoad, outVars>>

\* the generation of the panel whose Run downloads the result
UpsDownloadNext ==
    \/ \E text \in UpsBaseTexts : upsOriginal = Null /\ upsHandleOriginal(text)
    \/ \E text \in UpsModsTexts : upsMods = Null /\ upsHandleMods(text)
    \/ \E h \in HeaderNames : upsSetKey(h)
    \/ \E mode \in {"original", "union"} : upsSetHeaderMode(mode)
    \/ upsHandlePreview
    \/ upsHandleRunDownload

\* ------------------------------------------------------------------------
\* ComparePanel (diff of two files)
\* ------------------------------------------------------------------------

\* data lines of the base files:  1,a   A,b   " ",c
CmpBaseLinePool ==
    { <<"1", COMMA, "a">>,
      <<"A", COMMA, "b">>,
      <<SP, COMMA, "c">> }

\* data lines of the compare files:  1,b   a,B   2,c   " ",c
CmpCompareLinePool ==
    { <<"1", COMMA, "b">>,
      <<"a", COMMA, "B">>,
      <<"2", COMMA, "c">>,
      <<SP, COMMA, "c">> }

\* a base file with a capital in a value column:  1,A
CmpBaseCaseTexts == { <<HdrIdV, <<"1", COMMA, "A">>>> }

CmpBaseTexts == FileTexts(HdrIdV, CmpBaseLinePool) \cup CmpBaseCaseTexts

\* a compare file with the headers id,w:  1,b
CmpCompareOtherTexts == { <<HdrIdW, <<"1", COMMA, "b">>>> }

CmpCompareTexts == FileTexts(HdrIdV, CmpCompareLinePool) \cup CmpCompareOtherTexts

CmpInit ==
    /\ cmpStep = 1
    /\ cmpBaseCSV = Null
    /\ cmpCompareCSV = Null
    /\ cmpKey = ""
    /\ cmpOptions = [trim |-> TRUE, ci |-> FALSE]
    /\ cmpDiffResult = Null
    /\ cmpSummary = Null

\* ComparePanel.handleBase, with the key effect that follows the render
cmpHandleBase(text) ==
    /\ LET p == Some(parseCSVFile("base", text)) IN
       /\ cmpBaseCSV' = p
       /\ cmpStep' = IF cmpCompareCSV # Null THEN 2 ELSE cmpStep
       /\ cmpKey' = keyEffect(p, cmpCompareCSV, cmpKey)
    /\ UNCHANGED <<cmpCompareCSV, cmpOptions, cmpDiffResult, cmpSummary,
                   notCmp, outVars>>

\* ComparePanel.handleCompare, with the key effect that follows the render
cmpHandleCompare(text) ==
    /\ LET p == Some(parseCSVFile("compare", text)) IN
       /\ cmpCompareCSV' = p
       /\ cmpStep' = IF cmpBaseCSV # Null THEN 2 ELSE cmpStep
       /\ cmpKey' = keyEffect(cmpBaseCSV, p, cmpKey)
    /\ UNCHANGED <<cmpBaseCSV, cmpOptions, cmpDiffResult, cmpSummary,
                   notCmp, outVars>>

\* the key <select>: offers the common headers, disabled once a diff is shown
cmpSetKey(h) ==
    /\ cmpBaseCSV # Null /\ cmpCompareCSV # Null
    /\ ~(cmpStep > 2 /\ cmpDiffResult # Null)
    /\ h \in Range(commonHeaders(cmpBaseCSV, cmpCompareCSV))
    /\ cmpKey' = h
    /\ UNCHANGED <<cmpStep, cmpBaseCSV, cmpCompareCSV, cmpOptions, cmpDiffResult,
                   cmpSummary, notCmp, outVars>>

\* the Trim / Case-insensitive checkboxes, shown once both files are loaded
cmpSetOptions(opt) ==
    /\ cmpBaseCSV # Null /\ cmpCompareCSV # Null
    /\ opt \in {"trim", "ci"}
    /\ cmpOptions' = [cmpOptions EXCEPT ![opt] = ~cmpOptions[opt]]
    /\ UNCHANGED <<cmpStep, cmpBaseCSV, cmpCompareCSV, cmpKey, cmpDiffResult,
                   cmpSummary, notCmp, outVars>>

\* s.replace(' ', ''): the first space is removed
RECURSIVE removeFirstSpace(_)
removeFirstSpace(s) ==
    IF s = <<>> THEN <<>>
    ELSE IF Head(s) = SP THEN Tail(s)
    ELSE <<Head(s)>> \o removeFirstSpace(Tail(s))

\* normalize with trim written as the removal of one space
normalizeOneSpace(s, opts) ==
    LET t == IF opts.trim THEN removeFirstSpace(s) ELSE s
    IN IF opts.ci THEN toLowerCase(t) ELSE t

\* normalize, on String(val ?? '')
normalize(s, opts) ==
    LET t == IF opts.trim THEN trim(s) ELSE s
    IN IF opts.ci THEN toLowerCase(t) ELSE t

\* keyMapFrom without the `if (id)` test: empty keys are entered too
RECURSIVE keyMapFromAnyKey(_, _, _, _, _)
keyMapFromAnyKey(rows, key, opts, i, m) ==
    IF i > Len(rows) THEN m
    ELSE keyMapFromAnyKey(rows, key, opts, i + 1,
                          mapSet(m, normalize(Str(rows[i], key), opts), rows[i]))

\* baseMap / compareMap: the records by normalized key, rows[i..] entered into m
RECURSIVE keyMapFrom(_, _, _, _, _)
keyMapFrom(rows, key, opts, i, m) ==
    IF i > Len(rows) THEN m
    ELSE LET id == normalize(Str(rows[i], key), opts)
         IN keyMapFrom(rows, key, opts, i + 1,
                       IF id # <<>> THEN mapSet(m, id, rows[i]) ELSE m)

keyMap(csv, key, opts) == keyMapFrom(csv.rows, key, opts, 1, <<>>)

\* compareDiffs on the raw values instead of the normalized ones
compareDiffsRaw(baseRow, compareRow, allHeaders, opts) ==
    [h \in {x \in Range(allHeaders) : Str(baseRow, x) # Str(compareRow, x)}
       |-> Str(baseRow, h)]

\* compareDiffs storing the normalized base value
compareDiffsNormalized(baseRow, compareRow, allHeaders, opts) ==
    [h \in {x \in Range(allHeaders) :
              normalize(Str(baseRow, x), opts) # normalize(Str(compareRow, x), opts)}
       |-> normalize(Str(baseRow, h), opts)]

\* diffs: the columns whose normalized values differ, with the base value
compareDiffs(baseRow, compareRow, allHeaders, opts) ==
    [h \in {x \in Range(allHeaders) :
              normalize(Str(baseRow, x), opts) # normalize(Str(compareRow, x), opts)}
       |-> Str(baseRow, h)]

\* baseMap.forEach over entries i.. : removed and changed
\* acc = [removed, changed, changedById]
RECURSIVE baseLoop(_, _, _, _, _, _)
baseLoop(baseMap, compareMap, allHeaders, opts, i, acc) ==
    IF i > Len(baseMap) THEN acc
    ELSE
      LET id == baseMap[i].k
          baseRow == baseMap[i].v
      IN IF ~mapHas(compareMap, id)
         THEN baseLoop(baseMap, compareMap, allHeaders, opts, i + 1,
                       [acc EXCEPT !.removed = Append(acc.removed, baseRow)])
         ELSE LET compareRow == mapGet(compareMap, id)
                  diffs == compareDiffs(baseRow, compareRow, allHeaders, opts)
              IN IF DOMAIN diffs # {}
                 THEN baseLoop(baseMap, compareMap, allHeaders, opts, i + 1,
                        [acc EXCEPT !.changed = Append(acc.changed, compareRow),
                                    !.changedById = mapSet(acc.changedById, id, diffs)])
                 ELSE baseLoop(baseMap, compareMap, allHeaders, opts, i + 1, acc)

\* compareMap.forEach: added
compareAdded(baseMap, compareMap) ==
    mapValues(SelectSeq(compareMap, LAMBDA e : ~mapHas(baseMap, e.k)))

computeDiff(base, compare, key, opts) ==
    LET baseMap == keyMap(base, key, opts)
        compareMap == keyMap(compare, key, opts)
        allHeaders == unionHeaders(base.headers, compare.headers)
        res == baseLoop(baseMap, compareMap, allHeaders, opts, 1,
                        [removed |-> <<>>, changed |-> <<>>, changedById |-> <<>>])
    IN [added |-> compareAdded(baseMap, compareMap),
        removed |-> res.removed,
        changed |-> res.changed,
        changedById |-> res.changedById,
        allHeaders |-> allHeaders]

\* ComparePanel.handleCompareClick
cmpHandleCompareClick ==
    /\ cmpBaseCSV # Null /\ cmpCompareCSV # Null /\ cmpKey # ""
    /\ LET res == computeDiff(Val(cmpBaseCSV), Val(cmpCompareCSV), cmpKey, cmpOptions) IN
       /\ cmpDiffResult' = Some(res)
       /\ cmpSummary' = Some([added |-> Len(res.added), removed |-> Len(res.removed),
                              changed |-> Len(res.changed)])
    /\ cmpStep' = 3
    /\ UNCHANGED <<cmpBaseCSV, cmpCompareCSV, cmpKey, cmpOptions, notCmp, outVars>>

\* ComparePanel.handleReset
cmpHandleReset ==
    /\ cmpBaseCSV' = Null
    /\ cmpCompareCSV' = Null
    /\ cmpKey' = ""
    /\ cmpDiffResult' = Null
    /\ cmpStep' = 1
    /\ cmpSummary' = Null
    /\ UNCHANGED <<cmpOptions, notCmp, outVars>>

\* each file is loaded once, into its empty slot
CmpNext ==
    \/ \E text \in CmpBaseTexts : cmpBaseCSV = Null /\ cmpHandleBase(text)
    \/ \E text \in CmpCompareTexts : cmpCompareCSV = Null /\ cmpHandleCompare(text)
    \/ \E h \in HeaderNames : cmpSetKey(h)
    \/ \E opt \in {"trim", "ci"} : cmpSetOptions(opt)
    \/ cmpHandleCompareClick

\* ------------------------------------------------------------------------
\* lib/cleaningUtils.ts: findAndReplace, combineColumns
\* ------------------------------------------------------------------------

\* new RegExp(pattern) throws on a group that is opened and never closed
regExpThrows(pattern) == includes(pattern, "(") /\ ~includes(pattern, ")")

\* s starts with f; under ignoreCase the letters are compared in lower case
startsWith(s, f, ignoreCase) ==
    /\ Len(f) <= Len(s)
    /\ \A i \in DOMAIN f :
         IF ignoreCase THEN LowerChar(s[i]) = LowerChar(f[i]) ELSE s[i] = f[i]

\* regex.test(val) for a pattern of literal characters: val contains it
regExpTest(pattern, val) ==
    \E i \in 0..Len(val) : startsWith(SubSeq(val, i + 1, Len(val)), pattern, FALSE)

\* every occurrence of f in s, left to right, replaced by r (f is not empty)
RECURSIVE replaceAll(_, _, _, _)
replaceAll(s, f, r, ignoreCase) ==
    IF s = <<>> THEN <<>>
    ELSE IF startsWith(s, f, ignoreCase)
    THEN r \o replaceAll(SubSeq(s, Len(f) + 1, Len(s)), f, r, ignoreCase)
    ELSE <<Head(s)>> \o replaceAll(Tail(s), f, r, ignoreCase)

\* findAndReplace; with useRegex the find text is a pattern of literal
\* characters, compiled with the flags g or gi
findAndReplace(rows, column, find, replace, useRegex, matchCase) ==
    IF useRegex /\ regExpThrows(find) THEN [rows |-> rows, affected |-> 0]
    ELSE
      LET newVal(r) == replaceAll(Str(r, column), find, replace, ~matchCase)
          hit(r) == newVal(r) # Str(r, column)
      IN [rows |-> [i \in DOMAIN rows |->
                      IF hit(rows[i])
                      THEN [h \in DOMAIN rows[i] \cup {column} |->
                              IF h = column THEN newVal(rows[i]) ELSE rows[i][h]]
                      ELSE rows[i]],
          affected |-> Cardinality({i \in DOMAIN rows : hit(rows[i])})]

\* combineColumns: the values of columns joined by separator, as a new column
combineColumns(rows, headers, columns, separator, newColumnName) ==
    IF Len(columns) < 2 \/ newColumnName = "" THEN [rows |-> rows, headers |-> headers, affected |-> 0]
    ELSE [rows |-> [i \in DOMAIN rows |->
                      [h \in DOMAIN rows[i] \cup {newColumnName} |->
                         IF h = newColumnName
                         THEN join([c \in DOMAIN columns |-> Str(rows[i], columns[c])], separator)
                         ELSE rows[i][h]]],
          headers |-> IF newColumnName \in Range(headers) THEN headers
                      ELSE Append(headers, newColumnName),
          affected |-> Len(rows)]

\* the drop zones of the compare panel
cmpDrop(slot, text) ==
    /\ \A l \in cmpLoading : l.slot # slot
    /\ cmpLoading' = cmpLoading \cup
         {[slot |-> slot, text |-> text,
           other |-> IF slot = "base" THEN cmpCompareCSV # Null ELSE cmpBaseCSV # Null]}
    /\ UNCHANGED <<cmpVars, notCmpLoad, outVars>>

\* handleBase / handleCompare after the await
cmpLoaded(l) ==
    /\ l \in cmpLoading
    /\ cmpLoading' = cmpLoading \ {l}
    /\ LET p == Some(parseCSVFile(l.slot, l.text))
           base == IF l.slot = "base" THEN p ELSE cmpBaseCSV
           compare == IF l.slot = "compare" THEN p ELSE cmpCompareCSV
       IN /\ cmpBaseCSV' = base
          /\ cmpCompareCSV' = compare
          /\ cmpKey' = keyEffect(base, compare, cmpKey)
    /\ cmpStep' = IF l.other THEN 2 ELSE cmpStep
    /\ UNCHANGED <<cmpOptions, cmpDiffResult, cmpSummary, notCmpLoad, outVars>>

\* ------------------------------------------------------------------------
\* lib/cleaningUtils.ts: findAndReplace, statement by statement
\* ------------------------------------------------------------------------

\* String.prototype.indexOf(x, from), counted from 0; -1 when absent. The
\* empty string is found at from, or at the end of s when from is beyond it
indexOfFrom(s, x, from) ==
    LET at == {i \in from..Len(s) : startsWith(SubSeq(s, i + 1, Len(s)), x, FALSE)}
    IN IF x = <<>> THEN (IF from <= Len(s) THEN from ELSE Len(s))
       ELSE IF at = {} THEN -1
       ELSE CHOOSE i \in at : \A j \in at : i <= j

\* String.prototype.slice(from, to) and slice(from), counted from 0
slice(s, from, to) == SubSeq(s, from + 1, to)

sliceFrom(s, from) == SubSeq(s, from + 1, Len(s))

\* original.split(find).join(replace); the empty find splits between every two
\* characters
splitJoin(original, find, replace) ==
    IF find = <<>> THEN join([i \in DOMAIN original |-> <<original[i]>>], replace)
    ELSE replaceAll(original, find, replace, FALSE)

\* original.replace(regex, replace) for a pattern of literal characters with
\* the flags g or gi; the empty pattern matches before every character and at
\* the end
regexReplace(original, find, replace, ignoreCase) ==
    IF find = <<>>
    THEN join([i \in 1..(Len(original) + 1) |->
                 IF i <= Len(original) THEN replace \o <<original[i]>> ELSE replace], <<>>)
    ELSE replaceAll(original, find, replace, ignoreCase)

\* no call of findAndReplace has been made
FarIdle ==
    /\ farPc = "idle"
    /\ farInput = Null
    /\ farNewRows = <<>>
    /\ farLoopResult = <<>>
    /\ farSearchIdx = 0
    /\ farFoundIdx = -1

\* the row rows.map is at, and String(r[column] ?? '')
farRow == Val(farInput).rows[Len(farNewRows) + 1]

farOriginal == Str(farRow, Val(farInput).column)

\* the row the callback of rows.map returns for newVal
farMapped(newVal) ==
    IF newVal # farOriginal
    THEN [h \in DOMAIN farRow \cup {Val(farInput).column} |->
            IF h = Val(farInput).column THEN newVal ELSE farRow[h]]
    ELSE farRow

\* the call: the pattern is compiled; an invalid one returns the rows
farCall(rows, column, find, replace, useRegex, matchCase) ==
    /\ farPc = "idle"
    /\ farInput' = Some([rows |-> rows, column |-> column, find |-> find,
                         replace |-> replace, useRegex |-> useRegex,
                         matchCase |-> matchCase])
    /\ IF useRegex /\ regExpThrows(find)
       THEN farPc' = "done" /\ farNewRows' = rows
       ELSE farPc' = "map" /\ farNewRows' = <<>>
    /\ UNCHANGED <<farLoopResult, farSearchIdx, farFoundIdx, notFar, outVars>>

\* rows.map: the next row; the branches replace and split/join are one step,
\* the case-insensitive branch enters its loop; after the last row the
\* function returns
farMap ==
    /\ farPc = "map"
    /\ LET in == Val(farInput) IN
       IF Len(farNewRows) = Len(in.rows)
       THEN /\ farPc' = "done"
            /\ UNCHANGED <<farNewRows, farLoopResult, farSearchIdx, farFoundIdx>>
       ELSE IF in.useRegex
       THEN /\ farNewRows' = Append(farNewRows,
                 farMapped(regexReplace(farOriginal, in.find, in.replace, ~in.matchCase)))
            /\ UNCHANGED <<farPc, farLoopResult, farSearchIdx, farFoundIdx>>
       ELSE IF in.matchCase
       THEN /\ farNewRows' = Append(farNewRows,
                 farMapped(splitJoin(farOriginal, in.find, in.replace)))
            /\ UNCHANGED <<farPc, farLoopResult, farSearchIdx, farFoundIdx>>
       ELSE /\ farPc' = "while"
            /\ farLoopResult' = <<>>
            /\ farSearchIdx' = 0
            /\ farFoundIdx' = indexOfFrom(toLowerCase(farOriginal), toLowerCase(in.find), 0)
            /\ UNCHANGED farNewRows
    /\ UNCHANGED <<farInput, notFar, outVars>>

\* one test of while (foundIdx !== -1) and the body, or the statements after
\* the loop; a result longer than the engine's strings is a RangeError
farWhile ==
    /\ farPc = "while"
    /\ LET in == Val(farInput) IN
       IF farFoundIdx # -1
       THEN LET grown == farLoopResult \o slice(farOriginal, farSearchIdx, farFoundIdx)
                           \o in.replace
                next == farFoundIdx + Len(in.find)
            IN IF Len(grown) > MaxStringLen
               THEN /\ farPc' = "threw"
                    /\ UNCHANGED <<farNewRows, farLoopResult, farSearchIdx, farFoundIdx>>
               ELSE /\ farLoopResult' = grown
                    /\ farSearchIdx' = next
                    /\ farFoundIdx' = indexOfFrom(toLowerCase(farOriginal),
                                                  toLowerCase(in.find), next)
                    /\ UNCHANGED <<farPc, farNewRows>>
       ELSE /\ farNewRows' = Append(farNewRows,
                 farMapped(farLoopResult \o sliceFrom(farOriginal, farSearchIdx)))
            /\ farPc' = "map"
            /\ UNCHANGED <<farLoopResult, farSearchIdx, farFoundIdx>>
    /\ UNCHANGED <<farInput, notFar, outVars>>

\* what the call returned
farReturned ==
    [rows |-> farNewRows,
     affected |-> Cardinality({i \in DOMAIN farNewRows : farNewRows[i] # Val(farInput).rows[i]})]

\* ------------------------------------------------------------------------
\* CleanPanel (column cleaning and format-preserving export)
\* ------------------------------------------------------------------------

\* data lines of the files to clean:  "1","a"   1, b   2,   ,c   '3','a'
ClnLinePool ==
    { <<DQ, "1", DQ, COMMA, DQ, "a", DQ>>,
      <<"1", COMMA, SP, "b">>,
      <<"2", COMMA>>,
      <<COMMA, "c">>,
      <<SQ, "3", SQ, COMMA, SQ, "a", SQ>> }

ClnFileTexts == FileTexts(HdrIdV, ClnLinePool)

ClnInit ==
    /\ clnCsv = Null
    /\ clnSelectedCols = {}
    /\ clnPreviewHeaders = <<>>
    /\ clnPreviewRows = Null
    /\ clnOperations = <<>>
    /\ clnChangedKeys = {}

\* CleanPanel.handleFile; the drop zone is shown while no file is loaded
clnHandleFile(text) ==
    /\ clnCsv = Null
    /\ LET parsed == parseCSVFile("file", text) IN
       /\ clnCsv' = Some(parsed)
       /\ clnSelectedCols' = Range(parsed.headers)
       /\ clnPreviewHeaders' = parsed.headers
    /\ clnPreviewRows' = Null
    /\ clnOperations' = <<>>
    /\ clnChangedKeys' = {}
    /\ UNCHANGED <<notCln, outVars>>

\* ColumnPicker.toggle on a header of the file
clnToggleColumn(h) ==
    /\ clnCsv # Null
    /\ h \in Range(Val(clnCsv).headers)
    /\ clnSelectedCols' = IF h \in clnSelectedCols THEN clnSelectedCols \ {h}
                          ELSE clnSelectedCols \cup {h}
    /\ UNCHANGED <<clnCsv, clnPreviewHeaders, clnPreviewRows, clnOperations,
                   clnChangedKeys, notCln, outVars>>

\* previewRows || csv.rows
clnSourceRows == IF clnPreviewRows # Null THEN Val(clnPreviewRows) ELSE Val(clnCsv).rows

\* trimAllColumns: one row
trimAllRow(r, headers) ==
    [h \in DOMAIN r \cup {x \in Range(headers) : Str(r, x) # trim(Str(r, x))} |->
       IF h \in Range(headers) /\ Str(r, h) # trim(Str(r, h)) THEN trim(Str(r, h)) ELSE r[h]]

trimAllColumns(rows, headers) ==
    [rows |-> [i \in DOMAIN rows |-> trimAllRow(rows[i], headers)],
     affected |-> Cardinality({i \in DOMAIN rows :
                                 \E h \in Range(headers) : Str(rows[i], h) # trim(Str(rows[i], h))})]

\* the keys an operation with affected > 0 marks as changed
markedKeys(csv, sourceRows) ==
    {k \in {IF Len(csv.headers) > 0 THEN trim(Str(sourceRows[i], csv.headers[1])) ELSE <<>>
              : i \in DOMAIN sourceRows} : k # <<>>}

\* CleanPanel.applyTrimAll
clnApplyTrimAll ==
    /\ clnCsv # Null
    /\ Len(clnOperations) < MaxOps
    /\ LET result == trimAllColumns(clnSourceRows, Val(clnCsv).headers) IN
       /\ clnPreviewRows' = Some(result.rows)
       /\ clnOperations' = Append(clnOperations, [type |-> "trimAll", affected |-> result.affected])
       /\ clnChangedKeys' = IF result.affected > 0
                            THEN clnChangedKeys \cup markedKeys(Val(clnCsv), clnSourceRows)
                            ELSE clnChangedKeys
    /\ UNCHANGED <<clnCsv, clnSelectedCols, clnPreviewHeaders, notCln, outVars>>

\* CleanPanel.applyFindReplace: the text a of a column replaced by x, as plain
\* text or as a pattern
clnApplyFindReplace(findColumn, findRegex) ==
    /\ clnCsv # Null
    /\ findColumn \in Range(Val(clnCsv).headers)
    /\ Len(clnOperations) < MaxOps
    /\ LET result == findAndReplace(clnSourceRows, findColumn, <<"a">>, <<"x">>, findRegex, FALSE) IN
       /\ clnPreviewRows' = Some(result.rows)
       /\ clnOperations' = Append(clnOperations,
                                  [type |-> "findReplace", affected |-> result.affected])
    /\ UNCHANGED <<clnCsv, clnSelectedCols, clnPreviewHeaders, clnChangedKeys, notCln, outVars>>

\* CleanPanel.applyCombine: the columns of the file joined by a space, as the
\* new column w
clnApplyCombine ==
    /\ clnCsv # Null
    /\ Len(Val(clnCsv).headers) >= 2
    /\ Len(clnOperations) < MaxOps
    /\ LET currentHeaders == IF Len(clnPreviewHeaders) > 0 THEN clnPreviewHeaders
                             ELSE Val(clnCsv).headers
           result == combineColumns(clnSourceRows, currentHeaders, Val(clnCsv).headers,
                                    <<SP>>, "w")
       IN /\ clnPreviewRows' = Some(result.rows)
          /\ clnPreviewHeaders' = result.headers
          /\ clnSelectedCols' = clnSelectedCols \cup {"w"}
          /\ clnOperations' = Append(clnOperations,
                                     [type |-> "combine", affected |-> result.affected])
    /\ UNCHANGED <<clnCsv, clnChangedKeys, notCln, outVars>>

\* CleanPanel.handleReset
clnHandleReset ==
    /\ clnPreviewRows' = Null
    /\ clnOperations' = <<>>
    /\ clnChangedKeys' = {}
    /\ UNCHANGED <<clnCsv, clnSelectedCols, clnPreviewHeaders, notCln, outVars>>

\* the headers handleExport writes: the current headers that are selected
clnExportHeaders ==
    LET currentHeaders == IF Len(clnPreviewHeaders) > 0 THEN clnPreviewHeaders
                          ELSE Val(clnCsv).headers
    IN SelectSeq(currentHeaders, LAMBDA h : h \in clnSelectedCols)

\* headers[0] || ''
clnKeyColumn(headers) == IF Len(headers) > 0 THEN headers[1] ELSE ""

\* CleanPanel.handleExport
clnHandleExport ==
    /\ clnCsv # Null
    /\ LET headers == clnExportHeaders IN
       clipboard' = Some(formatPreservingExport(headers, clnSourceRows, Val(clnCsv),
                                                clnKeyColumn(headers), clnChangedKeys))
    /\ UNCHANGED <<clnVars, notCln, alertMsg, download>>

\* CleanPanel.handleExport of the generation that serializes with the
\* whole-line quote style
clnHandleExportWholeLine ==
    /\ clnCsv # Null
    /\ LET headers == SelectSeq(Val(clnCsv).headers, LAMBDA h : h \in clnSelectedCols) IN
       clipboard' = Some(formatPreservingExportWholeLine(headers, clnSourceRows, Val(clnCsv),
                                                         clnKeyColumn(headers), clnChangedKeys))
    /\ UNCHANGED <<clnVars, notCln, alertMsg, download>>

ClnNext ==
    \/ \E text \in ClnFileTexts : clnHandleFile(text)
    \/ \E h \in HeaderNames : clnToggleColumn(h)
    \/ clnApplyTrimAll
    \/ \E findColumn \in HeaderNames, findRegex \in BOOLEAN :
         clnApplyFindReplace(findColumn, findRegex)
    \/ clnApplyCombine
    \/ clnHandleReset
    \/ clnHandleExport
    \/ clnHandleExportWholeLine

\* ------------------------------------------------------------------------
\* validationUtils.validateDataset and cleaningUtils.findAndReplace
\* ------------------------------------------------------------------------

\* validateValue on row[rule.column], for the rule types required and regex:
\* Null, or the message
validateValue(row, rule) ==
    LET val == trim(Str(row, rule.column))
    IN CASE rule.type = "required" ->
              IF val = <<>> THEN Some("Value is required") ELSE Null
         [] rule.type = "regex" ->
              IF val # <<>> /\ rule.pattern # <<>>
              THEN IF regExpThrows(rule.pattern)
                   THEN Some("Invalid regex pattern in rule")
                   ELSE IF ~regExpTest(rule.pattern, val)
                        THEN Some("Value does not match pattern")
                        ELSE Null
              ELSE Null

\* the decimal text of a row number
DigitText(n) == <<"0", "1", "2", "3", "4", "5", "6", "7", "8", "9">>[n + 1]

\* keyColumn ? String(row[keyColumn] ?? '') : `Row ${index + 1}`
rowIdOf(row, index, keyColumn) ==
    IF keyColumn # Null /\ Val(keyColumn) # "" THEN Str(row, Val(keyColumn))
    ELSE <<"R", "o", "w", SP, DigitText(index)>>

\* the rule loop of one row, rules[j..]: acc = [errors, rowHasError]
RECURSIVE ruleLoop(_, _, _, _, _)
ruleLoop(row, rowId, rules, j, acc) ==
    IF j > Len(rules) THEN acc
    ELSE
      LET rule == rules[j]
          errorMsg == validateValue(row, rule)
      IN IF errorMsg # Null
         THEN ruleLoop(row, rowId, rules, j + 1,
                [errors |-> Append(acc.errors,
                              [rowId |-> rowId, column |-> rule.column,
                               value |-> Str(row, rule.column), message |-> Val(errorMsg),
                               severity |-> rule.severity, ruleId |-> rule.id]),
                 rowHasError |-> acc.rowHasError \/ rule.severity = "error"])
         ELSE ruleLoop(row, rowId, rules, j + 1, acc)

\* rows.forEach over rows[i..]: acc = [errors, rowsWithErrors]
RECURSIVE rowLoop(_, _, _, _, _)
rowLoop(rows, rules, keyColumn, i, acc) ==
    IF i > Len(rows) THEN acc
    ELSE
      LET rowId == rowIdOf(rows[i], i, keyColumn)
          res == ruleLoop(rows[i], rowId, rules, 1, [errors |-> acc.errors, rowHasError |-> FALSE])
      IN rowLoop(rows, rules, keyColumn, i + 1,
           [errors |-> res.errors,
            rowsWithErrors |-> IF res.rowHasError THEN acc.rowsWithErrors \cup {rowId}
                               ELSE acc.rowsWithErrors])

validateDataset(rows, rules, keyColumn) ==
    LET res == rowLoop(rows, rules, keyColumn, 1, [errors |-> <<>>, rowsWithErrors |-> {}])
    IN [totalRows |-> Len(rows),
        validRows |-> Len(rows) - Cardinality(res.rowsWithErrors),
        invalidRows |-> Cardinality(res.rowsWithErrors),
        errors |-> res.errors,
        rowsWithErrors |-> res.rowsWithErrors]

\* the records of the data sets: id 1 or 2, v empty, a or b
ValRecords == [id : {<<"1">>, <<"2">>}, v : {<<>>, <<"a">>, <<"b">>}]

\* the rules of the rule lists
ValRulePool ==
    { [id |-> "r1", column |-> "v", type |-> "required", pattern |-> <<>>, severity |-> "error"],
      [id |-> "r2", column |-> "v", type |-> "required", pattern |-> <<>>, severity |-> "warning"],
      [id |-> "r3", column |-> "v", type |-> "regex", pattern |-> <<"a">>, severity |-> "error"],
      [id |-> "r4", column |-> "v", type |-> "regex", pattern |-> <<"(">>, severity |-> "warning"] }

\* the find texts of a replacement
FindTexts == { <<"a">>, <<"B">>, <<"(">> }

ValIdle ==
    /\ valRows = <<>>
    /\ valRules = <<>>
    /\ valKeyColumn = Null
    /\ valResult = Null
    /\ farArgs = Null
    /\ farResult = Null

ValInit ==
    /\ valRows \in SeqsUpTo(ValRecords, MaxRows)
    /\ valRules \in SeqsUpTo(ValRulePool, MaxRules)
    /\ valKeyColumn \in {Null, Some("id")}
    /\ valResult = Null
    /\ farArgs = Null
    /\ farResult = Null

\* the validation panel's runValidation on the loaded rows
runValidation ==
    /\ valResult = Null
    /\ valResult' = Some(validateDataset(valRows, valRules, valKeyColumn))
    /\ UNCHANGED <<valRows, valRules, valKeyColumn, farArgs, farResult, notVal, outVars>>

\* CleanPanel.applyFindReplace's call, on column v with the replacement x
farRun(find, useRegex) ==
    /\ farResult = Null
    /\ farArgs' = Some([find |-> find, useRegex |-> useRegex])
    /\ farResult' = Some(findAndReplace(valRows, "v", find, <<"x">>, useRegex, FALSE))
    /\ UNCHANGED <<valRows, valRules, valKeyColumn, valResult, notVal, outVars>>

ValNext ==
    \/ runValidation
    \/ \E find \in FindTexts, useRegex \in BOOLEAN : farRun(find, useRegex)

\* ------------------------------------------------------------------------
\* buildLineWithPattern on drawn records and quote patterns
\* ------------------------------------------------------------------------

\* the values of the drawn records:  ''  a  o'  a"b  a,b  and a line feed
FmtValues ==
    { <<>>, <<"a">>, <<"o", SQ>>, <<"a", DQ, "b">>, <<"a", COMMA, "b">>, <<LF>> }

\* the column quote patterns: of no, one or two column positions
FmtPatterns == SeqsUpTo(BOOLEAN, 2)

FmtIdle ==
    /\ fmtRow = Null
    /\ fmtPattern = <<>>
    /\ fmtOut = Null

FmtInit ==
    /\ fmtRow \in {Some(r) : r \in [id : FmtValues, v : FmtValues]}
    /\ fmtPattern \in FmtPatterns
    /\ fmtOut = Null

\* formatPreservingExport rebuilds the line of the drawn record
fmtBuild ==
    /\ fmtOut = Null
    /\ fmtOut' = Some(buildLineWithPattern(Val(fmtRow), <<"id", "v">>, fmtPattern))
    /\ UNCHANGED <<fmtRow, fmtPattern, notFmt, outVars>>

FmtNext == fmtBuild

\* ------------------------------------------------------------------------
\* Key normalization of the three workflows, applied to drawn raw values
\* ------------------------------------------------------------------------

KeyChars == {SP, "a", "A"}

\* a raw key value: a string, or Null for a record that lacks the key column
RawKeys == {Null} \cup {Some(s) : s \in SeqsUpTo(KeyChars, MaxKeyLen)}

\* String(val ?? '')
StrOf(raw) == IF raw = Null THEN <<>> ELSE Val(raw)

\* upsert: the id of handlePreview and handleRun
upsertKey(raw) == trim(StrOf(raw))

\* upsert matching: id && modMap.has(id)
upsertSameKey(a, b) == upsertKey(a) # <<>> /\ upsertKey(a) = upsertKey(b)

\* compare matching: id entered into baseMap / compareMap when non-empty
compareSameKey(a, b, opts) ==
    normalize(StrOf(a), opts) # <<>> /\ normalize(StrOf(a), opts) = normalize(StrOf(b), opts)

\* delete: the probe of a base row whose key column holds raw
deleteKey(raw, opts) ==
    LET val == IF opts.trim THEN trim(StrOf(raw)) ELSE StrOf(raw)
    IN IF opts.ci THEN toLowerCase(val) ELSE val

\* delete matching: the cleaned identifiers are non-empty
deleteSameKey(a, b, opts) == deleteKey(a, opts) # <<>> /\ deleteKey(a, opts) = deleteKey(b, opts)

NormInit ==
    /\ normA \in RawKeys
    /\ normB \in RawKeys
    /\ normCfg \in [trim : BOOLEAN, ci : BOOLEAN]
    /\ normOut = Null

NormIdle ==
    /\ normA = Null
    /\ normB = Null
    /\ normCfg = [trim |-> TRUE, ci |-> FALSE]
    /\ normOut = Null

\* the three workflows normalize and match the drawn values
normApply ==
    /\ normOut = Null
    /\ normOut' = Some([once |-> normalize(StrOf(normA), normCfg),
                        twice |-> normalize(normalize(StrOf(normA), normCfg), normCfg),
                        upsert |-> upsertSameKey(normA, normB),
                        delete |-> deleteSameKey(normA, normB, normCfg),
                        compare |-> compareSameKey(normA, normB, normCfg)])
    /\ UNCHANGED <<normA, normB, normCfg, notNorm, outVars>>

NormNext == normApply

\* ------------------------------------------------------------------------
\* Specifications: every panel starts as constructed, one panel is driven
\* ------------------------------------------------------------------------

Init == DelInit /\ UpsInit /\ CmpInit /\ ClnInit /\ ValIdle /\ FmtIdle /\ NormIdle /\ LoadInit /\ FarIdle /\ OutInit

SpecDelete == Init /\ [][DelNext]_vars

SpecUpsert == Init /\ [][UpsNext]_vars

SpecUpsertDownload == Init /\ [][UpsDownloadNext]_vars

SpecCompare == Init /\ [][CmpNext]_vars

SpecClean == Init /\ [][ClnNext]_vars

\* ------------------------------------------------------------------------
\* Life of a panel: uploads, uploads over a loaded file, and Reset
\* ------------------------------------------------------------------------

HdrVW == <<"v", COMMA, "w">>

\* the files of these runs:  id,v / 1,a    id,w / 1,b    v,w / a,b
LifeTexts ==
    { <<HdrIdV, <<"1", COMMA, "a">>>>,
      <<HdrIdW, <<"1", COMMA, "b">>>>,
      <<HdrVW, <<"a", COMMA, "b">>>> }

\* the identifiers pasted in these runs:  "1, 3"
LifeIdsTexts == { <<"1", COMMA, SP, "3">> }

UpsLifeNext ==
    \/ \E text \in LifeTexts : upsHandleOriginal(text)
    \/ \E text \in LifeTexts : upsHandleMods(text)
    \/ \E h \in HeaderNames : upsSetKey(h)
    \/ upsHandlePreview
    \/ upsHandleRun
    \/ upsHandleReset

CmpLifeNext ==
    \/ \E text \in LifeTexts : cmpHandleBase(text)
    \/ \E text \in LifeTexts : cmpHandleCompare(text)
    \/ \E h \in HeaderNames : cmpSetKey(h)
    \/ cmpHandleCompareClick
    \/ cmpHandleReset

DelLifeNext ==
    \/ \E text \in LifeTexts : delHandleOriginal(text)
    \/ \E h \in HeaderNames : delSetKey(h)
    \/ \E text \in LifeIdsTexts : delSetIdsText(text)
    \/ delHandleClean
    \/ delHandlePreview
    \/ delHandleRun
    \/ delHandleReset

SpecUpsertLife == Init /\ [][UpsLifeNext]_vars

SpecCompareLife == Init /\ [][CmpLifeNext]_vars

SpecDeleteLife == Init /\ [][DelLifeNext]_vars

\* the loads in flight of a file, of the one panel App has mounted
Loads(slots) == [slot : slots, text : LifeTexts, other : BOOLEAN]

\* drops and completed loads of the mounted panel, in any order
LoadNext ==
    \/ CmpInit /\ cmpLoading = {} /\ \E slot \in {"original", "mods"}, text \in LifeTexts :
         upsDrop(slot, text)
    \/ \E l \in Loads({"original", "mods"}) : upsLoaded(l)
    \/ UpsInit /\ upsLoading = {} /\ \E slot \in {"base", "compare"}, text \in LifeTexts :
         cmpDrop(slot, text)
    \/ \E l \in Loads({"base", "compare"}) : cmpLoaded(l)

SpecLoad == Init /\ [][LoadNext]_vars

\* the rows, find texts and replacements of the calls of findAndReplace
FarRows == SeqsUpTo([v : {<<>>, <<"a">>, <<"b", "A">>}], MaxRows)

FarFinds == { <<>>, <<"a">>, <<"(">> }

FarReplaces == { <<>>, <<"x">> }

FarNext ==
    \/ \E rows \in FarRows, find \in FarFinds, replace \in FarReplaces,
          useRegex \in BOOLEAN, matchCase \in BOOLEAN :
         farCall(rows, "v", find, replace, useRegex, matchCase)
    \/ farMap
    \/ farWhile

\* a call that has started keeps running
SpecFindReplace == Init /\ [][FarNext]_vars /\ WF_vars(farMap) /\ WF_vars(farWhile)

\* ------------------------------------------------------------------------
\* Upsert or compare of files with repeated keys: App mounts one panel at a
\* time, the other panel is as constructed
\* ------------------------------------------------------------------------

\* base files:  1,a   " 1",b
MatchBaseTexts ==
    FileTexts(HdrIdV, { <<"1", COMMA, "a">>, <<SP, "1", COMMA, "b">> })

HdrIdWV == <<"i", "d", COMMA, "w", COMMA, "v">>

\* modification / compare files:  1,b   1,c   3,d,  and one with the headers
\* id,w,v:  1,b,c
MatchOtherTexts ==
    FileTexts(HdrIdV, { <<"1", COMMA, "b">>, <<"1", COMMA, "c">>, <<"3", COMMA, "d">> })
      \cup { <<HdrIdWV, <<"1", COMMA, "b", COMMA, "c">>>> }

MatchNext ==
    \/ CmpInit /\ \E text \in MatchBaseTexts : upsOriginal = Null /\ upsHandleOriginal(text)
    \/ CmpInit /\ \E text \in MatchOtherTexts : upsMods = Null /\ upsHandleMods(text)
    \/ CmpInit /\ \E h \in HeaderNames : upsSetKey(h)
    \/ CmpInit /\ \E mode \in {"original", "union"} : upsSetHeaderMode(mode)
    \/ CmpInit /\ upsHandlePreview
    \/ CmpInit /\ upsHandleRun
    \/ UpsInit /\ \E text \in MatchBaseTexts : cmpBaseCSV = Null /\ cmpHandleBase(text)
    \/ UpsInit /\ \E text \in MatchOtherTexts : cmpCompareCSV = Null /\ cmpHandleCompare(text)
    \/ UpsInit /\ \E h \in HeaderNames : cmpSetKey(h)
    \/ UpsInit /\ \E opt \in {"trim", "ci"} : cmpSetOptions(opt)
    \/ UpsInit /\ cmpHandleCompareClick

SpecMatch == Init /\ [][MatchNext]_vars

\* the panels as constructed, with a drawn pair of key values and configuration
InitNorm == DelInit /\ UpsInit /\ CmpInit /\ ClnInit /\ ValIdle /\ FmtIdle /\ NormInit /\ LoadInit /\ FarIdle /\ OutInit

\* the panels as constructed, with a drawn data set, rule list and key column
InitValidate == DelInit /\ UpsInit /\ CmpInit /\ ClnInit /\ ValInit /\ FmtIdle /\ NormIdle /\ LoadInit /\ FarIdle /\ OutInit

SpecValidate == InitValidate /\ [][ValNext]_vars

\* the panels as constructed, with a drawn record and column quote pattern
InitFormat == DelInit /\ UpsInit /\ CmpInit /\ ClnInit /\ ValIdle /\ FmtInit /\ NormIdle /\ LoadInit /\ FarIdle /\ OutInit

SpecFormat == InitFormat /\ [][FmtNext]_vars

SpecNorm == InitNorm /\ [][NormNext]_vars

\* ------------------------------------------------------------------------
\* Properties of the serializer
\* ------------------------------------------------------------------------

\* C1: an export of the rows of the loaded file with no changed key and the
\* file's own headers emits every record as the raw line at the record's own
\* index.
C1_ByteFidelity ==
    [][(clnHandleExport /\ clnPreviewRows = Null /\ clnChangedKeys = {}
          /\ clnExportHeaders = Val(clnCsv).headers) =>
         LET csv == Val(clnCsv)
             out == Lines(Val(clipboard'))
         IN /\ Len(out) = Len(csv.rows) + 1
            /\ \A i \in DOMAIN csv.rows : out[i + 1] = csv.rawLines[i]]_vars

\* the line whose quoting formatPreservingExport samples: the first data
\* line, else the header line
sampleLine(csv) == IF hasRawLine(csv, 1) THEN csv.rawLines[1] ELSE csv.rawHeaderLine

\* the field is wrapped in the character q
wrappedIn(field, q) == Len(field) >= 2 /\ field[1] = q /\ field[Len(field)] = q

\* C12: in an export with the file's own headers, every rebuilt data line
\* wraps a non-empty value of a column the sample line quotes in the quote
\* character the sample line uses for that column.
C12_QuoteCharKept ==
    [][(clnHandleExport /\ clnExportHeaders = Val(clnCsv).headers) =>
         LET csv == Val(clnCsv)
             headers == clnExportHeaders
             key == clnKeyColumn(headers)
             out == Lines(Val(clipboard'))
             sample == parseCSVLine(sampleLine(csv))
         IN \A i \in DOMAIN clnSourceRows :
              ~replays(headers, clnSourceRows[i], csv, key, clnChangedKeys) =>
                \A j \in DOMAIN headers \cap DOMAIN sample : \A q \in {DQ, SQ} :
                  (/\ trim(sample[j]) # <<>>
                   /\ trim(sample[j])[1] = q
                   /\ Str(clnSourceRows[i], headers[j]) # <<>>)
                    => wrappedIn(parseCSVLine(out[i + 1])[j], q)]_vars

\* the positions of the records of csv with trimmed key k and a raw line
storedAt(csv, keyColumn, k) ==
    {j \in DOMAIN csv.rows : trim(Str(csv.rows[j], keyColumn)) = k /\ hasRawLine(csv, j)}

\* the three conditions of a replay: the key is not among the changed keys,
\* the output headers are the file's headers, a raw line is stored for the key
mayReplay(headers, row, csv, keyColumn, changedKeys) ==
    LET k == trim(Str(row, keyColumn))
    IN /\ k \notin changedKeys
       /\ headers = csv.headers
       /\ k # <<>>
       /\ storedAt(csv, keyColumn, k) # {}

\* the raw line stored for the key of row: the last one of the file
storedLine(row, csv, keyColumn) ==
    LET at == storedAt(csv, keyColumn, trim(Str(row, keyColumn)))
    IN csv.rawLines[CHOOSE j \in at : \A n \in at : n <= j]

\* C20, per-column generation: a data line is the stored raw line exactly
\* under the three conditions, and the rebuilt line otherwise
ReplayExactlyPerColumn ==
    clnHandleExport =>
      LET csv == Val(clnCsv)
          headers == clnExportHeaders
          key == clnKeyColumn(headers)
          out == Lines(Val(clipboard'))
      IN \A i \in DOMAIN clnSourceRows :
           out[i + 1] = IF mayReplay(headers, clnSourceRows[i], csv, key, clnChangedKeys)
                        THEN storedLine(clnSourceRows[i], csv, key)
                        ELSE buildLineWithPattern(clnSourceRows[i], headers, dataQuotePattern(csv))

\* C20, whole-line generation
ReplayExactlyWholeLine ==
    clnHandleExportWholeLine =>
      LET csv == Val(clnCsv)
          headers == SelectSeq(csv.headers, LAMBDA h : h \in clnSelectedCols)
          key == clnKeyColumn(headers)
          out == Lines(Val(clipboard'))
      IN \A i \in DOMAIN clnSourceRows :
           out[i + 1] = IF mayReplay(headers, clnSourceRows[i], csv, key, clnChangedKeys)
                        THEN storedLine(clnSourceRows[i], csv, key)
                        ELSE buildLine(clnSourceRows[i], headers,
                                       dataPattern(csv).quoted, dataPattern(csv).quoteChar)

\* C20: formatPreservingExport, of either generation, emits the stored raw
\* line of a record exactly when the record's key is not in changedKeys, the
\* output headers equal the file's headers and a raw line is stored for the
\* key, and a line rebuilt from the record's values in every other case.
C20_ReplayExactly == [][ReplayExactlyPerColumn /\ ReplayExactlyWholeLine]_vars

\* C20 for the per-column generation alone
C20_ReplayExactlyPerColumn == [][ReplayExactlyPerColumn]_vars

\* the claimed reasons to wrap a value: a separator, a quote character, a
\* line break, or a column position the detected style quotes
mustWrap(str, stylesQuotes) ==
    \/ includes(str, COMMA)
    \/ includes(str, DQ) \/ includes(str, SQ)
    \/ includes(str, CR) \/ includes(str, LF)
    \/ stylesQuotes

\* field is str wrapped in a quote character, whose occurrences in str are
\* doubled
wrapsDoubled(field, str) ==
    \E q \in {DQ, SQ} : field = <<q>> \o doubleChar(str, q) \o <<q>>

\* C21: in a rebuilt line a non-empty value is wrapped in quotes if and only
\* if it contains a comma, a quote character (" or '), a carriage return or a
\* line feed, or the column pattern quotes its position; a wrapped value has
\* every occurrence of the wrapping character doubled, and any other value
\* is written as it is.
C21_QuotedIffNeeded ==
    fmtOut # Null =>
      LET row == Val(fmtRow)
          headers == <<"id", "v">>
          out == Val(fmtOut)
      IN \E c \in DOMAIN out :
           /\ out[c] = COMMA
           /\ LET fields == <<SubSeq(out, 1, c - 1), SubSeq(out, c + 1, Len(out))>>
              IN \A j \in DOMAIN headers :
                   LET str == Str(row, headers[j])
                   IN str # <<>> =>
                        IF mustWrap(str, patternAt(fmtPattern, j))
                        THEN wrapsDoubled(fields[j], str)
                        ELSE fields[j] = str

\* the fields of a rebuilt line that stand for an empty value are empty
emptyFieldsBare(line, row, headers) ==
    LET fields == parseCSVLine(line)
    IN \A j \in DOMAIN headers :
         Str(row, headers[j]) = <<>> => (j \in DOMAIN fields => fields[j] = <<>>)

\* C6: in the text of an export, of either serializer generation, every
\* rebuilt data line has nothing between the separators where the record's
\* value is empty or missing.
C6_EmptyFieldBare ==
    [][/\ clnHandleExport =>
            LET headers == clnExportHeaders
                key == clnKeyColumn(headers)
                out == Lines(Val(clipboard'))
            IN \A i \in DOMAIN clnSourceRows :
                 ~replays(headers, clnSourceRows[i], Val(clnCsv), key, clnChangedKeys)
                   => emptyFieldsBare(out[i + 1], clnSourceRows[i], headers)
       /\ clnHandleExportWholeLine =>
            LET headers == SelectSeq(Val(clnCsv).headers, LAMBDA h : h \in clnSelectedCols)
                key == clnKeyColumn(headers)
                out == Lines(Val(clipboard'))
            IN \A i \in DOMAIN clnSourceRows :
                 ~wholeLineReplays(clnSourceRows[i], Val(clnCsv), key, clnChangedKeys)
                   => emptyFieldsBare(out[i + 1], clnSourceRows[i], headers)]_vars

\* C6 for the per-column generation alone
C6_EmptyFieldBarePerColumn ==
    [][clnHandleExport =>
         LET headers == clnExportHeaders
             key == clnKeyColumn(headers)
             out == Lines(Val(clipboard'))
         IN \A i \in DOMAIN clnSourceRows :
              ~replays(headers, clnSourceRows[i], Val(clnCsv), key, clnChangedKeys)
                => emptyFieldsBare(out[i + 1], clnSourceRows[i], headers)]_vars

\* ------------------------------------------------------------------------
\* Properties of validation and of find-and-replace
\* ------------------------------------------------------------------------

\* the (row, rule) positions whose rule fails
failingPairs(rows, rules) ==
    {p \in (DOMAIN rows) \X (DOMAIN rules) : validateValue(rows[p[1]], rules[p[2]]) # Null}

\* C16: the result of validateDataset has one error entry for every failing
\* (row, rule) pair, invalidRows is the number of rows that fail a rule of
\* severity error, and validRows + invalidRows = totalRows.
C16_ValidationCounts ==
    valResult # Null =>
      LET res == Val(valResult)
          failing == failingPairs(valRows, valRules)
      IN /\ Len(res.errors) = Cardinality(failing)
         /\ \A p \in failing :
              \E e \in DOMAIN res.errors :
                /\ res.errors[e].rowId = rowIdOf(valRows[p[1]], p[1], valKeyColumn)
                /\ res.errors[e].ruleId = valRules[p[2]].id
         /\ res.invalidRows =
              Cardinality({i \in DOMAIN valRows :
                             \E j \in DOMAIN valRules :
                               /\ <<i, j>> \in failing
                               /\ valRules[j].severity = "error"})
         /\ res.validRows + res.invalidRows = res.totalRows

\* C17: find-and-replace with a pattern that does not compile returns the
\* rows as they were with affected = 0, and a regex rule whose pattern does
\* not compile has no error entry in the result of validateDataset.
C17_InvalidPatternNoEffect ==
    /\ (farResult # Null /\ Val(farArgs).useRegex /\ regExpThrows(Val(farArgs).find)) =>
         Val(farResult) = [rows |-> valRows, affected |-> 0]
    /\ valResult # Null =>
         \A e \in DOMAIN Val(valResult).errors :
           \A j \in DOMAIN valRules :
             (valRules[j].type = "regex" /\ regExpThrows(valRules[j].pattern))
               => Val(valResult).errors[e].ruleId # valRules[j].id

\* ------------------------------------------------------------------------
\* Properties of the delete workflow
\* ------------------------------------------------------------------------

\* the records of a sequence, with multiplicity
SeqToBag(s) == [x \in Range(s) |-> Cardinality({i \in DOMAIN s : s[i] = x})]

\* C4: for the loaded base file, key column, options and cleaned identifier
\* set of any reachable state, the rows Preview lists as toDelete and the rows
\* Run keeps are disjoint and together are the base records, each one counted
\* once.
C4_FilterPartition ==
    (delOriginal # Null /\ delKey # "") =>
      LET original == Val(delOriginal)
          toDelete == previewToDelete(original, delKey, delOptions, delCleanIds)
          kept == runFiltered(original, delKey, delOptions, delCleanIds)
      IN /\ SeqToBag(toDelete) (+) SeqToBag(kept) = SeqToBag(original.rows)
         /\ Range(toDelete) \cap Range(kept) = {}
         /\ Len(toDelete) + Len(kept) = Len(original.rows)

\* C4 witness: Preview and Run have both acted on the current inputs, Preview
\* lists a row and Run keeps another.
C4_Witness ==
    /\ delOriginal # Null /\ delPreviewData # Null /\ clipboard # Null
    /\ LET original == Val(delOriginal)
           kept == runFiltered(original, delKey, delOptions, delCleanIds)
       IN /\ Val(delPreviewData).toDelete
               = previewToDelete(original, delKey, delOptions, delCleanIds)
          /\ Val(clipboard) = exportToCSV(original.headers, kept)
          /\ Len(Val(delPreviewData).toDelete) = 1
          /\ Len(kept) = 1

\* the normalized form of a value under the trim and case-insensitive options
delNormalized(val, opts) ==
    LET t == IF opts.trim THEN trim(val) ELSE val
    IN IF opts.ci THEN toLowerCase(t) ELSE t

\* C9: a Preview step leaves in notFound exactly, in input order, the cleaned
\* identifiers whose normalized form is no base record's normalized key, and
\* every cleaned identifier is in notFound or equals, normalized, the key of
\* a row of toDelete.
C9_NotFoundExact ==
    [][delHandlePreview =>
         LET original == Val(delOriginal)
             pd == Val(delPreviewData')
             keys == {delNormalized(Str(original.rows[i], delKey), delOptions)
                        : i \in DOMAIN original.rows}
         IN /\ pd.notFound
                 = SelectSeq(delCleanIds.list,
                             LAMBDA id : delNormalized(id, delOptions) \notin keys)
            /\ \A n \in DOMAIN delCleanIds.list :
                 LET id == delCleanIds.list[n] IN
                 \/ id \in Range(pd.notFound)
                 \/ \E t \in DOMAIN pd.toDelete :
                      delNormalized(Str(pd.toDelete[t], delKey), delOptions)
                        = delNormalized(id, delOptions)]_vars

\* the positions of the base rows Run keeps
runKeptPositions(original, key, opts, ids) ==
    SelectSeq([i \in DOMAIN original.rows |-> i],
              LAMBDA i : runProbe(original.rows[i], key, opts) \notin ids.set)

\* C2, delete half: a Run step of the delete workflow emits every kept base
\* record as its original raw line.
DelRunByteIdentical ==
    delHandleRun =>
      LET original == Val(delOriginal)
          pos == runKeptPositions(original, delKey, delOptions, delCleanIds)
          out == Lines(Val(clipboard'))
      IN /\ Len(out) = Len(pos) + 1
         /\ \A j \in DOMAIN pos : out[j + 1] = original.rawLines[pos[j]]


\* ------------------------------------------------------------------------
\* Properties of the upsert workflow
\* ------------------------------------------------------------------------

\* C2, upsert half: a Run step of the upsert workflow emits every base record
\* it leaves as it was as that record's original raw line.
UpsRunByteIdentical ==
    upsHandleRun =>
      LET original == Val(upsOriginal)
          res == upsertRun(original, Val(upsMods), upsKey, upsHeaderMode)
          out == Lines(Val(clipboard'))
      IN \A i \in DOMAIN original.rows :
           res.outRows[i] = original.rows[i] => out[i + 1] = original.rawLines[i]

\* C2: in the text of an upsert Run and of a delete Run, every retained base
\* record no modification changed is byte-identical to its original raw line.
C2_RunByteIdentical == [][DelRunByteIdentical /\ UpsRunByteIdentical]_vars

\* the trimmed keys of the records of a file
trimmedKeys(csv, key) == {trim(Str(csv.rows[i], key)) : i \in DOMAIN csv.rows}

\* every base record is in the output once, at its place, as it was or merged
\* with a modification record of its key
baseCovered(original, mods, key, outRows) ==
    /\ Len(outRows) >= Len(original.rows)
    /\ \A i \in DOMAIN original.rows :
         \/ outRows[i] = original.rows[i]
         \/ \E m \in DOMAIN mods.rows :
              /\ trim(Str(mods.rows[m], key)) = trim(Str(original.rows[i], key))
              /\ outRows[i] = assign(original.rows[i], mods.rows[m])

\* the output rows after the base rows
insertedRows(original, outRows) == SubSeq(outRows, Len(original.rows) + 1, Len(outRows))

\* C3 as claimed: after a Run step the output holds every base record once
\* and, after them, exactly the modification records whose key no base record
\* has, each once.
C3_MergeCoverage ==
    [][upsHandleRun =>
         LET original == Val(upsOriginal)
             mods == Val(upsMods)
             res == upsertRun(original, mods, upsKey, upsHeaderMode)
         IN /\ Val(clipboard') = plainCSV(res.headersOut, res.outRows)
            /\ baseCovered(original, mods, upsKey, res.outRows)
            /\ SeqToBag(insertedRows(original, res.outRows))
                 = SeqToBag(SelectSeq(mods.rows,
                      LAMBDA r : trim(Str(r, upsKey)) \notin trimmedKeys(original, upsKey)))]_vars

\* the position of the last modification record with trimmed key k
lastWithKey(mods, key, k) ==
    CHOOSE m \in DOMAIN mods.rows :
      /\ trim(Str(mods.rows[m], key)) = k
      /\ \A n \in DOMAIN mods.rows : trim(Str(mods.rows[n], key)) = k => n <= m

\* C3 amended: after a Run step the output holds every base record once and,
\* after them, one insert for every non-empty key of the modification file
\* that no base record has: the last modification record with that key.
C3_MergeCoverageLastWins ==
    [][upsHandleRun =>
         LET original == Val(upsOriginal)
             mods == Val(upsMods)
             res == upsertRun(original, mods, upsKey, upsHeaderMode)
             ins == insertedRows(original, res.outRows)
             newKeys == (trimmedKeys(mods, upsKey) \ trimmedKeys(original, upsKey)) \ {<<>>}
         IN /\ Val(clipboard') = plainCSV(res.headersOut, res.outRows)
            /\ baseCovered(original, mods, upsKey, res.outRows)
            /\ Len(ins) = Cardinality(newKeys)
            /\ \A k \in newKeys :
                 \E t \in DOMAIN ins : ins[t] = mods.rows[lastWithKey(mods, upsKey, k)]]_vars

\* ins is mods with some records left out: the order of mods is kept
isSubsequence(ins, rows) ==
    \E f \in [DOMAIN ins -> DOMAIN rows] :
      /\ \A t \in DOMAIN ins : ins[t] = rows[f[t]]
      /\ \A t, u \in DOMAIN ins : t < u => f[t] < f[u]

\* C11: after a Run step the base rows, retained or merged, stand first in
\* base order, every insert comes after them, and the inserts stand in the
\* order their records have in the modification file.
C11_RunOrder ==
    [][upsHandleRun =>
         LET original == Val(upsOriginal)
             mods == Val(upsMods)
             res == upsertRun(original, mods, upsKey, upsHeaderMode)
         IN /\ Val(clipboard') = plainCSV(res.headersOut, res.outRows)
            /\ baseCovered(original, mods, upsKey, res.outRows)
            /\ isSubsequence(insertedRows(original, res.outRows), mods.rows)]_vars

\* base record i has a pending modification: its trimmed key is not empty, a
\* modification record has it, and no earlier base record has it
pendingAt(original, mods, key, i) ==
    LET id == trim(Str(original.rows[i], key))
    IN /\ id # <<>>
       /\ id \in trimmedKeys(mods, key)
       /\ \A e \in 1..(i - 1) : trim(Str(original.rows[e], key)) # id

\* the value of column h in the merged record: the modification's value when
\* the modification has the column, the base value otherwise
mergedValue(or, mr, h) == IF h \in DOMAIN mr THEN mr[h] ELSE Str(or, h)

\* the output columns in which the merged record differs from the base record
differingColumns(or, mr, hdrs) == {h \in Range(hdrs) : Str(or, h) # mergedValue(or, mr, h)}

\* C18: after Preview, a base record with a pending modification is among the
\* updates if and only if its merged record differs from it in an output
\* column, and changedById at its key holds exactly the differing columns,
\* each with the base record's value.
C18_PreviewChanged ==
    [][upsHandlePreview =>
         LET original == Val(upsOriginal)
             mods == Val(upsMods)
             pd == Val(upsPreviewData')
             mrOf(i) == mods.rows[lastWithKey(mods, upsKey, trim(Str(original.rows[i], upsKey)))]
             changedRows == {i \in DOMAIN original.rows :
                               /\ pendingAt(original, mods, upsKey, i)
                               /\ differingColumns(original.rows[i], mrOf(i), pd.headersOut) # {}}
         IN /\ Len(pd.updates) = Cardinality(changedRows)
            /\ Len(pd.changedById) = Cardinality(changedRows)
            /\ \A i \in changedRows :
                 LET or == original.rows[i]
                     id == trim(Str(or, upsKey))
                     d == differingColumns(or, mrOf(i), pd.headersOut)
                 IN /\ mapHas(pd.changedById, id)
                    /\ mapGet(pd.changedById, id) = [h \in d |-> Str(or, h)]
                    /\ \E u \in DOMAIN pd.updates :
                         \A h \in Range(pd.headersOut) :
                           Str(pd.updates[u], h) = mergedValue(or, mrOf(i), h)]_vars

\* C18 witness: Preview has acted on the base 1,a and the modifications 1,b
\* and 3,c with key id; record 1 is changed with v mapped to a, record 3 is
\* the one insert.
C18_Witness ==
    /\ upsOriginal # Null /\ upsMods # Null /\ upsPreviewData # Null /\ upsKey = "id"
    /\ Val(upsOriginal).rows = <<[id |-> <<"1">>, v |-> <<"a">>]>>
    /\ Val(upsMods).rows = <<[id |-> <<"1">>, v |-> <<"b">>], [id |-> <<"3">>, v |-> <<"c">>]>>
    /\ LET pd == Val(upsPreviewData)
       IN /\ pd.updates = <<[id |-> <<"1">>, v |-> <<"b">>]>>
          /\ mapHas(pd.changedById, <<"1">>)
          /\ mapGet(pd.changedById, <<"1">>) = [h \in {"v"} |-> <<"a">>]
          /\ pd.inserts = <<[id |-> <<"3">>, v |-> <<"c">>]>>

\* C3 witness: Run has acted on a base file with a record and a modification
\* file whose two records share a key the base lacks; one insert was made.
C3_Witness ==
    /\ upsOriginal # Null /\ upsMods # Null /\ clipboard # Null /\ alertMsg # Null
    /\ LET original == Val(upsOriginal)
           mods == Val(upsMods)
           res == upsertRun(original, mods, upsKey, upsHeaderMode)
       IN /\ Val(clipboard) = plainCSV(res.headersOut, res.outRows)
          /\ Len(original.rows) >= 1
          /\ Len(mods.rows) = 2
          /\ mods.rows[1] # mods.rows[2]
          /\ trim(Str(mods.rows[1], upsKey)) = trim(Str(mods.rows[2], upsKey))
          /\ trim(Str(mods.rows[1], upsKey)) \notin trimmedKeys(original, upsKey) \cup {<<>>}
          /\ Val(alertMsg).inserted = 1

\* ------------------------------------------------------------------------
\* Properties of a panel's life
\* ------------------------------------------------------------------------

\* h is a header of both files
headerOfBoth(h, a, b) == h \in Range(Val(a).headers) \cap Range(Val(b).headers)

\* C13, upsert half: Preview and Run act only on a key column both files have
UpsKeyInBoth ==
    (upsHandlePreview \/ upsHandleRun) => headerOfBoth(upsKey, upsOriginal, upsMods)

\* C13, compare half: Compare acts only on a key column both files have
CmpKeyInBoth ==
    cmpHandleCompareClick => headerOfBoth(cmpKey, cmpBaseCSV, cmpCompareCSV)

\* C13: whatever uploads, uploads over a loaded file, key selections and
\* resets came before, upsert Preview and Run and Compare run their matching
\* only when the current key column is a header of both loaded files.
C13_KeyInBothFiles == [][UpsKeyInBoth /\ CmpKeyInBoth]_vars

\* C14, upsert panel: Reset, and an upload when both files were loaded, leave
\* no preview, and no key but the one the key effect selects afresh for the
\* files now loaded
UpsNothingSurvives ==
    /\ upsHandleReset => upsPreviewData' = Null /\ upsKey' = ""
    /\ (/\ upsOriginal # Null /\ upsMods # Null
        /\ \E text \in LifeTexts : upsHandleOriginal(text) \/ upsHandleMods(text)) =>
          /\ upsPreviewData' = Null
          /\ upsKey' = keyEffect(upsOriginal', upsMods', "")

\* C14, compare panel: Reset, and an upload when both files were loaded, leave
\* no diff, and no key but the one the key effect selects afresh for the files
\* now loaded
CmpNothingSurvives ==
    /\ cmpHandleReset => cmpDiffResult' = Null /\ cmpKey' = ""
    /\ (/\ cmpBaseCSV # Null /\ cmpCompareCSV # Null
        /\ \E text \in LifeTexts : cmpHandleBase(text) \/ cmpHandleCompare(text)) =>
          /\ cmpDiffResult' = Null
          /\ cmpKey' = keyEffect(cmpBaseCSV', cmpCompareCSV', "")

\* C14, delete panel: Reset, and an upload when a file was loaded, leave no
\* preview, no cleaned identifiers, and no key but the first header of the
\* file now loaded
DelNothingSurvives ==
    /\ delHandleReset =>
          /\ delPreviewData' = Null
          /\ delCleanIds' = [list |-> <<>>, set |-> {}]
          /\ delKey' = ""
    /\ (delOriginal # Null /\ \E text \in LifeTexts : delHandleOriginal(text)) =>
          /\ delPreviewData' = Null
          /\ delCleanIds' = [list |-> <<>>, set |-> {}]
          /\ delKey' = Val(delOriginal').headers[1]

\* C14: a Reset step, or an upload step that replaces a file of a loaded
\* upsert, delete or compare panel, leaves no preview or diff result, no
\* cleaned identifier set and no selected key column of the run before it.
C14_NothingSurvives ==
    [][UpsNothingSurvives /\ CmpNothingSurvives /\ DelNothingSurvives]_vars

bucketKeys(rows, key, opts) == {normalize(Str(rows[i], key), opts) : i \in DOMAIN rows}

\* the position of the last record of rows with normalized key k
lastNormalized(rows, key, opts, k) ==
    CHOOSE m \in DOMAIN rows :
      /\ normalize(Str(rows[m], key), opts) = k
      /\ \A n \in DOMAIN rows : normalize(Str(rows[n], key), opts) = k => n <= m

\* C5: after a Compare step no normalized key is in two of added, removed and
\* changed, and every changed record differs from its matched base record in
\* the normalized value of at least one column of the unioned headers.
C5_DiffDisjoint ==
    [][cmpHandleCompareClick =>
         LET d == Val(cmpDiffResult')
             base == Val(cmpBaseCSV)
             A == bucketKeys(d.added, cmpKey, cmpOptions)
             R == bucketKeys(d.removed, cmpKey, cmpOptions)
             C == bucketKeys(d.changed, cmpKey, cmpOptions)
         IN /\ A \cap R = {} /\ A \cap C = {} /\ R \cap C = {}
            /\ \A i \in DOMAIN d.changed :
                 LET k == normalize(Str(d.changed[i], cmpKey), cmpOptions) IN
                 /\ k \in bucketKeys(base.rows, cmpKey, cmpOptions)
                 /\ LET b == base.rows[lastNormalized(base.rows, cmpKey, cmpOptions, k)]
                    IN \E h \in Range(d.allHeaders) :
                         normalize(Str(b, h), cmpOptions)
                           # normalize(Str(d.changed[i], h), cmpOptions)]_vars

\* C5 witness: the shown diff is the one of the current inputs and has an
\* added, a removed and a changed record.
C5_Witness ==
    /\ cmpDiffResult # Null
    /\ Val(cmpDiffResult) = computeDiff(Val(cmpBaseCSV), Val(cmpCompareCSV), cmpKey, cmpOptions)
    /\ Len(Val(cmpDiffResult).added) >= 1
    /\ Len(Val(cmpDiffResult).removed) >= 1
    /\ Len(Val(cmpDiffResult).changed) >= 1

\* C19: after a Compare step changedById has one entry for every changed
\* key, and the entry holds exactly the columns of the two files' headers in
\* which the normalized values of the base record and the compare record
\* differ, each with the base record's value as loaded ('' for a column the
\* base record lacks).
C19_ChangedColumns ==
    [][cmpHandleCompareClick =>
         LET d == Val(cmpDiffResult')
             base == Val(cmpBaseCSV)
             compare == Val(cmpCompareCSV)
             hdrs == Range(base.headers) \cup Range(compare.headers)
             C == bucketKeys(d.changed, cmpKey, cmpOptions)
         IN /\ Len(d.changedById) = Cardinality(C)
            /\ \A k \in C :
                 LET b == base.rows[lastNormalized(base.rows, cmpKey, cmpOptions, k)]
                     c == compare.rows[lastNormalized(compare.rows, cmpKey, cmpOptions, k)]
                     differing == {h \in hdrs : normalize(Str(b, h), cmpOptions)
                                                  # normalize(Str(c, h), cmpOptions)}
                 IN /\ mapHas(d.changedById, k)
                    /\ mapGet(d.changedById, k) = [h \in differing |-> Str(b, h)]]_vars

\* C19 witness: Compare has acted, ignoring case, on the base 1,A with
\* headers id,v and the compare file 1,b with headers id,w: key 1 is changed
\* with v mapped to A and w, which the base lacks, mapped to ''.
C19_Witness ==
    /\ cmpBaseCSV # Null /\ cmpCompareCSV # Null /\ cmpDiffResult # Null
    /\ cmpKey = "id" /\ cmpOptions.ci
    /\ Val(cmpBaseCSV).rows = <<[id |-> <<"1">>, v |-> <<"A">>]>>
    /\ Val(cmpCompareCSV).rows = <<[id |-> <<"1">>, w |-> <<"b">>]>>
    /\ Len(Val(cmpDiffResult).changed) = 1
    /\ mapHas(Val(cmpDiffResult).changedById, <<"1">>)
    /\ mapGet(Val(cmpDiffResult).changedById, <<"1">>)
         = [h \in {"v", "w"} |-> IF h = "v" THEN <<"A">> ELSE <<>>]

\* how many records of rows have normalized key k
countKey(rows, key, opts, k) ==
    Cardinality({i \in DOMAIN rows : normalize(Str(rows[i], key), opts) = k})

\* C10: after a Compare step a non-empty normalized key of the compare file
\* alone has exactly one added record, one of the base file alone has exactly
\* one removed record, and no record of either file whose key normalizes to
\* the empty string is in added, removed or changed.
C10_AddedRemoved ==
    [][cmpHandleCompareClick =>
         LET d == Val(cmpDiffResult')
             base == Val(cmpBaseCSV)
             compare == Val(cmpCompareCSV)
             B == bucketKeys(base.rows, cmpKey, cmpOptions) \ {<<>>}
             K == bucketKeys(compare.rows, cmpKey, cmpOptions) \ {<<>>}
             emptyKeyed(rows) ==
               {rows[i] : i \in {j \in DOMAIN rows :
                                   normalize(Str(rows[j], cmpKey), cmpOptions) = <<>>}}
         IN /\ \A k \in K \ B : countKey(d.added, cmpKey, cmpOptions, k) = 1
            /\ \A k \in B \ K : countKey(d.removed, cmpKey, cmpOptions, k) = 1
            /\ (emptyKeyed(base.rows) \cup emptyKeyed(compare.rows))
                 \cap (Range(d.added) \cup Range(d.removed) \cup Range(d.changed)) = {}]_vars

\* C10 witness: the shown diff is the one of the current inputs, with one
\* added record and a removed record; the compare file has a record with an
\* empty normalized key beside a record with a non-empty one.
C10_Witness ==
    /\ cmpDiffResult # Null
    /\ Val(cmpDiffResult) = computeDiff(Val(cmpBaseCSV), Val(cmpCompareCSV), cmpKey, cmpOptions)
    /\ LET d == Val(cmpDiffResult)
           base == Val(cmpBaseCSV)
           compare == Val(cmpCompareCSV)
       IN /\ Len(d.added) = 1
          /\ Len(d.removed) >= 1
          /\ \E i, j \in DOMAIN compare.rows :
               /\ i # j
               /\ normalize(Str(compare.rows[i], cmpKey), cmpOptions) = <<>>
               /\ normalize(Str(compare.rows[j], cmpKey), cmpOptions) # <<>>

\* ------------------------------------------------------------------------
\* Properties of key normalization
\* ------------------------------------------------------------------------

\* C7: normalizing a normalized key again, under the same trim and
\* caseInsensitive configuration, returns it unchanged.
C7_NormalizeIdempotent ==
    normOut # Null => Val(normOut).twice = Val(normOut).once

\* C7 witness: a value with spaces around an upper-case letter was normalized
\* with both options on.
C7_Witness ==
    /\ normOut # Null
    /\ normCfg = [trim |-> TRUE, ci |-> TRUE]
    /\ normA # Null
    /\ Val(normOut).once # StrOf(normA)
    /\ Val(normOut).once # <<>>

\* C8: under one trim and caseInsensitive configuration, two raw key values
\* are the same key for upsert exactly when they are for delete and for
\* compare.
C8_SharedNormalization ==
    normOut # Null =>
      /\ Val(normOut).upsert = Val(normOut).delete
      /\ Val(normOut).upsert = Val(normOut).compare

\* ------------------------------------------------------------------------
\* Properties of files with repeated keys
\* ------------------------------------------------------------------------

\* Run merges a base record with the last modification record of its key,
\* and inserts, for a key the base lacks, the last modification record
UpsLastModWins ==
    upsHandleRun =>
      LET original == Val(upsOriginal)
          mods == Val(upsMods)
          res == upsertRun(original, mods, upsKey, upsHeaderMode)
          out == Lines(Val(clipboard'))
          ins == insertedRows(original, res.outRows)
          newKeys == (trimmedKeys(mods, upsKey) \ trimmedKeys(original, upsKey)) \ {<<>>}
          lastMod(k) == mods.rows[lastWithKey(mods, upsKey, k)]
      IN /\ Val(clipboard') = plainCSV(res.headersOut, res.outRows)
         /\ \A i \in DOMAIN original.rows :
              pendingAt(original, mods, upsKey, i) =>
                LET or == original.rows[i]
                    mr == lastMod(trim(Str(or, upsKey)))
                IN res.outRows[i] = IF differingColumns(or, mr, res.headersOut) # {}
                                    THEN assign(or, mr) ELSE or
         /\ Len(ins) = Cardinality(newKeys)
         /\ \A k \in newKeys : \E t \in DOMAIN ins : ins[t] = lastMod(k)

\* of the base records that share a key with a modification, Run merges the
\* last one and leaves the earlier ones out of the merge
UpsLastBaseWins ==
    upsHandleRun =>
      LET original == Val(upsOriginal)
          mods == Val(upsMods)
          res == upsertRun(original, mods, upsKey, upsHeaderMode)
      IN \A i \in DOMAIN original.rows :
           LET k == trim(Str(original.rows[i], upsKey))
               last == \A n \in DOMAIN original.rows :
                         trim(Str(original.rows[n], upsKey)) = k => n <= i
           IN (k # <<>> /\ k \in trimmedKeys(mods, upsKey)) =>
                res.outRows[i] =
                  IF last /\ differingColumns(original.rows[i],
                                              mods.rows[lastWithKey(mods, upsKey, k)],
                                              res.headersOut) # {}
                  THEN assign(original.rows[i], mods.rows[lastWithKey(mods, upsKey, k)])
                  ELSE original.rows[i]

\* Compare matches the last base record and the last compare record of a
\* key: added and removed hold the last record of each key of one file
\* alone, changed the last compare record of each key whose two last records
\* differ
CmpLastWins ==
    cmpHandleCompareClick =>
      LET d == Val(cmpDiffResult')
          base == Val(cmpBaseCSV)
          compare == Val(cmpCompareCSV)
          B == bucketKeys(base.rows, cmpKey, cmpOptions) \ {<<>>}
          K == bucketKeys(compare.rows, cmpKey, cmpOptions) \ {<<>>}
          lastBase(k) == base.rows[lastNormalized(base.rows, cmpKey, cmpOptions, k)]
          lastCompare(k) == compare.rows[lastNormalized(compare.rows, cmpKey, cmpOptions, k)]
          differ == {k \in B \cap K :
                       \E h \in Range(base.headers) \cup Range(compare.headers) :
                         normalize(Str(lastBase(k), h), cmpOptions)
                           # normalize(Str(lastCompare(k), h), cmpOptions)}
      IN /\ Len(d.added) = Cardinality(K \ B)
         /\ \A k \in K \ B : \E t \in DOMAIN d.added : d.added[t] = lastCompare(k)
         /\ Len(d.removed) = Cardinality(B \ K)
         /\ \A k \in B \ K : \E t \in DOMAIN d.removed : d.removed[t] = lastBase(k)
         /\ Len(d.changed) = Cardinality(differ)
         /\ \A k \in differ : \E t \in DOMAIN d.changed : d.changed[t] = lastCompare(k)

\* C22 as claimed: of the records of one file that share a normalized key,
\* the last is the one upsert and compare match, merge or compare, and the
\* earlier ones are neither merged, compared, inserted, added nor removed;
\* this for the base file and the modification file of upsert and for both
\* files of compare.
C22_LastRecordWins == [][UpsLastModWins /\ UpsLastBaseWins /\ CmpLastWins]_vars

\* C22 amended: the last record of a key wins in the files that are entered
\* into a lookup map, the modification file of upsert and both files of
\* compare; the base records of upsert are all emitted, and the first of a
\* key takes the modification.
C22_LastInLookupWins == [][UpsLastModWins /\ CmpLastWins]_vars

\* C22 witness: Run has acted, with key id, on the base 1,a and the
\* modifications 1,b and 1,c; the output is the base record with v = c.
C22_Witness ==
    /\ upsOriginal # Null /\ upsMods # Null /\ clipboard # Null /\ upsKey = "id"
    /\ Val(upsOriginal).rows = <<[id |-> <<"1">>, v |-> <<"a">>]>>
    /\ Val(upsMods).rows = <<[id |-> <<"1">>, v |-> <<"b">>], [id |-> <<"1">>, v |-> <<"c">>]>>
    /\ Val(clipboard) = plainCSV(<<"id", "v">>, <<[id |-> <<"1">>, v |-> <<"c">>]>>)

\* ------------------------------------------------------------------------
\* Properties of the output columns
\* ------------------------------------------------------------------------

\* out holds every header of a and of b once: those of a first, in the order
\* of a, then those of b alone, in the order of b
baseFirstUnion(out, a, b) ==
    /\ Range(out) = Range(a) \cup Range(b)
    /\ Len(out) = Cardinality(Range(out))
    /\ out = a \o SelectSeq(b, LAMBDA h : h \notin Range(a))

\* the header line of a text, as header names
headerLineOf(hdrs) == join([i \in DOMAIN hdrs |-> Chars(hdrs[i])], <<COMMA>>)

\* C23: the output columns of Compare, and of upsert Preview and Run in
\* union mode, are the headers of both files, each once, the base headers
\* first in base order and then the headers of the other file alone in their
\* order; in original mode the output columns of upsert are the base headers.
C23_OutputColumns ==
    [][/\ cmpHandleCompareClick =>
            baseFirstUnion(Val(cmpDiffResult').allHeaders,
                           Val(cmpBaseCSV).headers, Val(cmpCompareCSV).headers)
       /\ upsHandlePreview =>
            IF upsHeaderMode = "union"
            THEN baseFirstUnion(Val(upsPreviewData').headersOut,
                                Val(upsOriginal).headers, Val(upsMods).headers)
            ELSE Val(upsPreviewData').headersOut = Val(upsOriginal).headers
       /\ upsHandleRun =>
            \E out \in SeqsUpTo(HeaderNames, Cardinality(HeaderNames)) :
              /\ Lines(Val(clipboard'))[1] = headerLineOf(out)
              /\ IF upsHeaderMode = "union"
                 THEN baseFirstUnion(out, Val(upsOriginal).headers, Val(upsMods).headers)
                 ELSE out = Val(upsOriginal).headers]_vars

\* C23 witness: Compare has acted on a base file with the headers id,v and a
\* compare file with the headers id,w,v: the output columns are id,v,w.
C23_Witness ==
    /\ cmpBaseCSV # Null /\ cmpCompareCSV # Null /\ cmpDiffResult # Null
    /\ Val(cmpBaseCSV).headers = <<"id", "v">>
    /\ Val(cmpCompareCSV).headers = <<"id", "w", "v">>
    /\ Val(cmpDiffResult).allHeaders = <<"id", "v", "w">>

\* ------------------------------------------------------------------------
\* Properties of Clean IDs
\* ------------------------------------------------------------------------

\* C24: after Clean IDs the lookup set holds exactly the normalized forms of
\* the identifiers of the pasted text, and the unique count reported is the
\* size of that set, whatever the trim, dedupe and case-insensitive options.
C24_UniqueCount ==
    [][delHandleClean =>
         /\ delCleanIds'.set
              = {delNormalized(p, delOptions) : p \in Range(idParts(delIdsText))}
         /\ Val(delIdsStats').unique = Cardinality(delCleanIds'.set)]_vars

\* C24 with the dedupe option on
C24_UniqueCountDedup ==
    [][(delHandleClean /\ delOptions.dedup) =>
         /\ delCleanIds'.set
              = {delNormalized(p, delOptions) : p \in Range(idParts(delIdsText))}
         /\ Val(delIdsStats').unique = Cardinality(delCleanIds'.set)]_vars

\* ------------------------------------------------------------------------
\* Properties of the clean panel
\* ------------------------------------------------------------------------

\* record i of the shown rows differs, in an exported column, from record i
\* of the loaded file: an operation changed it
changedByOperation(i, headers) ==
    /\ clnPreviewRows # Null
    /\ i \in DOMAIN Val(clnCsv).rows
    /\ \E j \in DOMAIN headers :
         Str(clnSourceRows[i], headers[j]) # Str(Val(clnCsv).rows[i], headers[j])

\* line, read back, holds the values of row in the columns headers
showsValues(line, row, headers) ==
    LET fields == papaFields(line)
    IN \A j \in DOMAIN headers :
         Str(row, headers[j]) = IF j \in DOMAIN fields THEN fields[j] ELSE <<>>

\* C25: in an export of the clean panel, the line of every record an
\* operation changed, read back, holds the record's current values in the
\* exported columns: no changed record is written as its former raw line.
C25_ExportShowsCleaned ==
    [][clnHandleExport =>
         LET headers == clnExportHeaders
             out == Lines(Val(clipboard'))
         IN \A i \in DOMAIN clnSourceRows :
              changedByOperation(i, headers)
                => showsValues(out[i + 1], clnSourceRows[i], headers)]_vars

\* C25 with no find-and-replace in the operation log
C25_ExportShowsCleanedNoReplace ==
    [][(clnHandleExport /\ \A n \in DOMAIN clnOperations : clnOperations[n].type # "findReplace") =>
         LET headers == clnExportHeaders
             out == Lines(Val(clipboard'))
         IN \A i \in DOMAIN clnSourceRows :
              changedByOperation(i, headers)
                => showsValues(out[i + 1], clnSourceRows[i], headers)]_vars

\* ------------------------------------------------------------------------
\* Properties of the delete panel over its option toggles
\* ------------------------------------------------------------------------

\* the lookup-set entry Clean IDs derived from a listed identifier: the
\* identifier itself, or its lower case when Clean IDs ignored case
derivedEntry(id, ids) == IF id \in ids.set THEN id ELSE toLowerCase(id)

\* C26: after a Preview no identifier is in notFound while the lookup-set
\* entry derived from it is the probe of a row of toDelete.
C26_NotFoundNotDeleted ==
    [][delHandlePreview =>
         LET pd == Val(delPreviewData')
         IN \A n \in DOMAIN pd.notFound :
              ~\E t \in DOMAIN pd.toDelete :
                 previewProbe(pd.toDelete[t], delKey, delOptions)
                   = derivedEntry(pd.notFound[n], delCleanIds)]_vars

\* C26 when Clean IDs ran under the options of the Preview: the lookup set is
\* the one Clean IDs gives now
C26_NotFoundNotDeletedFresh ==
    [][(delHandlePreview
          /\ delCleanIds = cleanLoop(idParts(delIdsText), 1, [list |-> <<>>, set |-> {}],
                                     delOptions)) =>
         LET pd == Val(delPreviewData')
         IN \A n \in DOMAIN pd.notFound :
              ~\E t \in DOMAIN pd.toDelete :
                 previewProbe(pd.toDelete[t], delKey, delOptions)
                   = derivedEntry(pd.notFound[n], delCleanIds)]_vars

\* ------------------------------------------------------------------------
\* Properties of upsert Run against upsert Preview
\* ------------------------------------------------------------------------

\* the lines of the rows, as Run of the clipboard generation writes them
plainLines(hdrs, rows) ==
    [r \in DOMAIN rows |-> join([i \in DOMAIN hdrs |-> Str(rows[r], hdrs[i])], <<COMMA>>)]

\* the lines of the rows, as Run of the download generation writes them
unparsedLines(hdrs, rows) ==
    [r \in DOMAIN rows |->
       join([i \in DOMAIN hdrs |-> papaUnparseField(Str(rows[r], hdrs[i]))], <<COMMA>>)]

\* Run agrees with the shown Preview: the counts reported are those of the
\* preview, the lines after the base rows are the preview's inserts, and the
\* base lines Run wrote anew are the preview's updates, in order
agreesWithPreview(lines, baseLines, updateLines, insertLines, counts) ==
    LET n == Len(baseLines)
        rewritten == SelectSeq([i \in 1..n |-> i], LAMBDA i : lines[i] # baseLines[i])
    IN /\ counts.updated = Val(upsSummary).updated
       /\ counts.inserted = Val(upsSummary).inserted
       /\ Len(lines) = n + Len(insertLines)
       /\ SubSeq(lines, n + 1, Len(lines)) = insertLines
       /\ [t \in DOMAIN rewritten |-> lines[rewritten[t]]] = updateLines

\* C27, clipboard generation: Run after Preview, on the same files, key and
\* mode, reports the preview's counts, inserts the preview's inserts and
\* updates the preview's updates with the same values
RunAgreesWithPreview ==
    (upsHandleRun /\ upsPreviewData # Null) =>
      LET pd == Val(upsPreviewData)
          hdrs == pd.headersOut
      IN agreesWithPreview(Tail(Lines(Val(clipboard'))),
                           plainLines(hdrs, Val(upsOriginal).rows),
                           plainLines(hdrs, pd.updates),
                           plainLines(hdrs, pd.inserts),
                           Val(alertMsg'))

\* C27, download generation
DownloadAgreesWithPreview ==
    (upsHandleRunDownload /\ upsPreviewData # Null) =>
      LET pd == Val(upsPreviewData)
          hdrs == pd.headersOut
      IN agreesWithPreview(Tail(Lines(Val(download'))),
                           unparsedLines(hdrs, Val(upsOriginal).rows),
                           unparsedLines(hdrs, pd.updates),
                           unparsedLines(hdrs, pd.inserts),
                           Val(alertMsg'))

\* C27: for the same base file, modification file, key column and schema
\* mode, Run, of either generation, reports the number of updated rows and
\* the inserted records of Preview, and the rows it updates are the rows
\* Preview lists as updates, with the same values in the output columns.
C27_RunMatchesPreview == [][RunAgreesWithPreview /\ DownloadAgreesWithPreview]_vars

\* C27 for the clipboard generation alone
C27_RunMatchesPreviewClipboard == [][RunAgreesWithPreview]_vars

\* ------------------------------------------------------------------------
\* Properties of the file loads
\* ------------------------------------------------------------------------

\* C28: once both files of the upsert panel, or of the compare panel, are
\* loaded and no load is in flight, the panel's step is at least 2.
C28_StepAfterLoads ==
    /\ (upsOriginal # Null /\ upsMods # Null /\ upsLoading = {}) => upsStep >= 2
    /\ (cmpBaseCSV # Null /\ cmpCompareCSV # Null /\ cmpLoading = {}) => cmpStep >= 2

\* ------------------------------------------------------------------------
\* Properties of Reset in the clean panel
\* ------------------------------------------------------------------------

\* the text handleExport writes right after the upload of csv
uploadExportText(csv) ==
    formatPreservingExport(csv.headers, csv.rows, csv, clnKeyColumn(csv.headers), {})

\* Reset leaves the state of the upload: no preview rows, the headers of the
\* file as preview headers, every header of the file selected and nothing
\* else, an empty operation log, no changed keys
resetRestores ==
    clnHandleReset
      => /\ clnPreviewRows' = Null
         /\ clnPreviewHeaders' = Val(clnCsv).headers
         /\ clnSelectedCols' = Range(Val(clnCsv).headers)
         /\ clnOperations' = <<>>
         /\ clnChangedKeys' = {}

\* an export with no operation in the log, that is after the upload or after
\* Reset, writes what it writes right after the upload
exportAsUploaded ==
    (clnHandleExport /\ clnOperations = <<>>)
      => clipboard' = Some(uploadExportText(Val(clnCsv)))

\* C29: Reset, after cleaning operations on a file of which no column was
\* unticked, restores the state of the upload (preview rows, preview headers,
\* selected columns, operation log, changed keys), and an export after Reset
\* writes the text an export right after the upload writes.
C29_ResetRestoresUpload ==
    [][(clnCsv # Null /\ Range(Val(clnCsv).headers) \subseteq clnSelectedCols)
         => (resetRestores /\ exportAsUploaded)]_vars

\* ------------------------------------------------------------------------
\* Properties of findAndReplace as a computation
\* ------------------------------------------------------------------------

\* C30: every call of findAndReplace, for every find text, the empty one
\* included, and every combination of useRegex and matchCase, terminates and
\* returns a result.
C30_Terminates == (farPc # "idle") ~> (farPc = "done")

\* C30 for the calls that are not a plain-text, case-insensitive search for
\* the empty text
C30_TerminatesNonEmptyFind ==
    (farPc # "idle" /\ (Val(farInput).find # <<>> \/ Val(farInput).useRegex
                        \/ Val(farInput).matchCase))
      ~> (farPc = "done")

\* a returned call with a find text that is not empty returns what the
\* function returns
FarReturnsResult ==
    (farPc = "done" /\ Val(farInput).find # <<>>)
      => farReturned = findAndReplace(Val(farInput).rows, Val(farInput).column,
                                      Val(farInput).find, Val(farInput).replace,
                                      Val(farInput).useRegex, Val(farInput).matchCase)

====
